---- MODULE Spec2Model ----
(***************************************************************************)
(* HexaTiles build pipeline: Parquet rows -> H3 cell resolution ->         *)
(* property filter/quantize -> ordered NDJSON features, with the           *)
(* producer / worker / reassembly concurrency of build.processRows.        *)
(*                                                                         *)
(* Text is modelled as a sequence of one-character strings so that         *)
(* parsing, case folding, glob matching, byte-order sorting and JSON       *)
(* lengths are computed, not assumed.                                      *)
(***************************************************************************)
EXTENDS Integers, Sequences, FiniteSets, Bags, TLC

(***************************************************************************)
(* Bounds of the model.                                                    *)
(***************************************************************************)
\* longest input (number of Parquet rows) of the pipeline specification
MaxRows == 2
\* largest worker count (Options.Threads) of the pipeline specification
MaxThreads == 2
\* width of the unsigned cell word (64 in the program, scaled down)
UintBits == 12
\* number of base cells of the scaled-down cell index (122 in H3)
MaxBaseCell == 7
\* significant bits of a float64 (53 in the program, scaled down)
MantissaBits == 8
\* float property values are the multiples of 1/FloatScale
FloatScale == 4

(***************************************************************************)
(* Characters and strings.                                                 *)
(***************************************************************************)
\* the characters of the model, in ascending byte order
Alphabet ==
  << " ", "*", "-", ".",
     "0", "1", "2", "3", "4", "5", "6", "7", "8", "9",
     "<", ">", "?", "C", "H", "X", "_",
     "a", "b", "c", "d", "e", "f", "g", "h", "i", "j", "k", "l", "m",
     "n", "o", "p", "q", "r", "s", "t", "u", "v", "w", "x", "y", "z" >>

\* position of every character in byte order
CharCodes ==
  [c \in {Alphabet[i] : i \in 1..Len(Alphabet)} |->
     CHOOSE i \in 1..Len(Alphabet) : Alphabet[i] = c]

\* position of a character in byte order
CharCode(c) == CharCodes[c]

\* strings.ToLower on one character
ToLowerChar(c) ==
  CASE c = "C" -> "c"
    [] c = "H" -> "h"
    [] c = "X" -> "x"
    [] OTHER -> c

\* strings.ToLower
ToLower(s) == [i \in 1..Len(s) |-> ToLowerChar(s[i])]

\* byte-wise s < t, the order of sort.Strings
RECURSIVE LexLess(_, _)
LexLess(s, t) ==
  IF t = << >> THEN FALSE
  ELSE IF s = << >> THEN TRUE
  ELSE IF s[1] # t[1] THEN CharCode(s[1]) < CharCode(t[1])
  ELSE LexLess(Tail(s), Tail(t))

\* sort.Strings on a set of distinct strings: the ascending sequence
RECURSIVE SortStrings(_)
SortStrings(S) ==
  IF S = {} THEN << >>
  ELSE LET m == CHOOSE x \in S : \A y \in S \ {x} : LexLess(x, y)
       IN  << m >> \o SortStrings(S \ {m})

\* the elements of a sequence
Range(s) == {s[i] : i \in 1..Len(s)}

\* 2^n
Pow2(n) == 2 ^ n

\* value of every character as a hexadecimal digit, -1 when it is none
DigitValues ==
  [c \in DOMAIN CharCodes |->
     CASE c \in {"0","1","2","3","4","5","6","7","8","9"} -> CharCodes[c] - CharCodes["0"]
       [] c \in {"a","b","c","d","e","f"} -> CharCodes[c] - CharCodes["a"] + 10
       [] c = "C" -> 12
       [] OTHER -> -1]

\* value of a digit in the given base, -1 when it is no digit of that base
DigitValue(c, base) == IF DigitValues[c] < base THEN DigitValues[c] ELSE -1

\* the first value that does not fit the word
WordLimit == Pow2(UintBits)

\* strconv.ParseUint(s, base, 64): [ok, value]; fails on the empty string, on a
\* character that is no digit of the base, and on a value that does not fit the word
RECURSIVE ParseUintFrom(_, _, _)
ParseUintFrom(s, base, acc) ==
  IF s = << >> THEN [ok |-> TRUE, value |-> acc]
  ELSE LET d == DigitValue(s[1], base)
       IN  IF d < 0 THEN [ok |-> FALSE, value |-> 0]
           ELSE IF acc * base + d >= WordLimit THEN [ok |-> FALSE, value |-> 0]
           ELSE ParseUintFrom(Tail(s), base, acc * base + d)

ParseUint(s, base) ==
  IF s = << >> THEN [ok |-> FALSE, value |-> 0] ELSE ParseUintFrom(s, base, 0)

\* strconv.FormatUint(n, base) with lowercase digits
RECURSIVE FormatUint(_, _)
FormatUint(n, base) ==
  LET d == n % base
      ch == IF d < 10 THEN Alphabet[CharCode("0") + d] ELSE Alphabet[CharCode("a") + d - 10]
  IN  IF n < base THEN << ch >> ELSE FormatUint(n \div base, base) \o << ch >>

(***************************************************************************)
(* Column values (the tagged variant null | bool | int64 | string) and     *)
(* errors.  An error is a record of the parts its message is formatted     *)
(* from, so that "the message contains the offending text" can be read     *)
(* off it.                                                                 *)
(***************************************************************************)
NullVal == [t |-> "null", s |-> << >>, i |-> 0]
StrVal(chars) == [t |-> "string", s |-> chars, i |-> 0]
IntVal(n) == [t |-> "int64", s |-> << >>, i |-> n]
\* a float64 of n/FloatScale
FloatVal(n) == [t |-> "float64", s |-> << >>, i |-> n]
BoolVal(b) == [t |-> "bool", s |-> << >>, i |-> IF b THEN 1 ELSE 0]

\* a parquet.Value, the type of every column value ReadRows returns: the value
\* v of the file with its kind (null, boolean, int64, double or byte array)
ParquetValue(v) == [t |-> "parquet.Value", kind |-> v.t, s |-> v.s, i |-> v.i]

\* the rowMap fillBuffer builds from a parquet.Row: rowMap[field.Name()] = value
rowMapOf(row) == [k \in DOMAIN row |-> ParquetValue(row[k])]

\* the nil error
NoErr == [kind |-> "nil", text |-> << >>, column |-> << >>, row |-> 0]
\* errors.New / fmt.Errorf with the text quoted in the message
NewErr(kind, text) == [kind |-> kind, text |-> text, column |-> << >>, row |-> 0]
\* ErrNoH3Column
ErrNoH3Column == NewErr("missing_h3_column", << >>)

(***************************************************************************)
(* The H3 library, on a scaled-down index: the low hex digit of a cell is  *)
(* its resolution, the bits above it the base cell.                        *)
(***************************************************************************)
\* h3.Cell.Resolution
h3Resolution(cell) == cell % 16
\* h3.Cell.IsValid
h3IsValid(cell) == (cell \div 16) \in 1..MaxBaseCell
\* h3.IndexToString
IndexToString(cell) == FormatUint(cell, 16)

(***************************************************************************)
(* internal/parquet: locating and parsing the cell column.                 *)
(***************************************************************************)
possibleH3Names ==
  { <<"h","3">>, <<"h","3","_","i","d">>, <<"h","3","i","n","d","e","x">>,
    <<"h","3","_","i","n","d","e","x">>, <<"h","3","i","d">>,
    <<"c","e","l","l">>, <<"c","e","l","l","_","i","d">> }

\* an alias test that compares the name as written
isH3ColumnExact(name) == name \in possibleH3Names

\* isH3Column: the lower-cased name is one of the aliases
isH3Column(name) == ToLower(name) \in possibleH3Names

\* strings.HasPrefix(s, "0x") || strings.HasPrefix(s, "0X")
HasHexPrefix(s) == Len(s) >= 2 /\ s[1] = "0" /\ s[2] \in {"x", "X"}

\* an outcome that prefers the decimal reading
decimalThenHex(s, hex, dec) ==
  IF dec.ok THEN [cell |-> dec.value, err |-> NoErr]
  ELSE IF hex.ok THEN [cell |-> hex.value, err |-> NoErr]
  ELSE [cell |-> 0, err |-> NewErr("parse_h3_string", s)]

\* the outcome of stringToCell from the two parses of the stripped text
hexThenDecimal(s, hex, dec) ==
  IF hex.ok THEN [cell |-> hex.value, err |-> NoErr]
  ELSE IF dec.ok THEN [cell |-> dec.value, err |-> NoErr]
  ELSE [cell |-> 0, err |-> NewErr("parse_h3_string", s)]

\* the text stringToCell parses: a leading 0x or 0X removed
stripHexPrefix(s) == IF HasHexPrefix(s) THEN SubSeq(s, 3, Len(s)) ELSE s

\* stringToCell on the stripped text
stringToCellStripped(s) == hexThenDecimal(s, ParseUint(s, 16), ParseUint(s, 10))

\* stringToCell: [cell, err]; hexadecimal first, decimal as the fallback
stringToCell(s) == stringToCellStripped(stripHexPrefix(s))

\* strings.TrimSpace: leading and trailing spaces removed
RECURSIVE TrimSpace(_)
TrimSpace(s) ==
  IF s = << >> THEN s
  ELSE IF Head(s) = " " THEN TrimSpace(Tail(s))
  ELSE IF s[Len(s)] = " " THEN TrimSpace(SubSeq(s, 1, Len(s) - 1))
  ELSE s

Abs(x) == IF x < 0 THEN 0 - x ELSE x

\* the float n/FloatScale as encoding/json and fmt.Sprint write it: shortest decimal
FormatFloat(n) ==
  (IF n < 0 THEN << "-" >> ELSE << >>)
    \o FormatUint(Abs(n) \div FloatScale, 10)
    \o (CASE ((Abs(n) * 4) \div FloatScale) % 4 = 0 -> << >>
          [] ((Abs(n) * 4) \div FloatScale) % 4 = 1 -> << ".", "2", "5" >>
          [] ((Abs(n) * 4) \div FloatScale) % 4 = 2 -> << ".", "5" >>
          [] OTHER -> << ".", "7", "5" >>)

\* fmt.Sprint of an integer
FormatInt(n) == IF n < 0 THEN << "-" >> \o FormatUint(0 - n, 10) ELSE FormatUint(n, 10)

\* what parseCell returns for a non-empty text and its stringToCell outcome r
parsedText(text, r) ==
  IF r.err # NoErr THEN [cell |-> 0, str |-> text, err |-> r.err]
  ELSE [cell |-> r.cell, str |-> IndexToString(r.cell), err |-> NoErr]

\* fmt.Sprint of a bool
FormatBool(value) == IF value.i = 1 THEN <<"t","r","u","e">> ELSE <<"f","a","l","s","e">>

\* parquet.Value.String: the text of a byte array, the decimal digits of a
\* number, true or false, <null> for the null value
ValueString(value) ==
  CASE value.kind = "string" -> value.s
    [] value.kind = "int64" -> FormatInt(value.i)
    [] value.kind = "float64" -> FormatFloat(value.i)
    [] value.kind = "bool" -> FormatBool(value)
    [] OTHER -> <<"<","n","u","l","l",">">>

\* the text of a number without its sign
unsigned(text) == IF text # << >> /\ Head(text) = "-" THEN Tail(text) ELSE text

\* a parseCell that reads a negative number as its magnitude
parseCellMagnitude(value) ==
  IF value.t = "parquet.Value"
  THEN IF TrimSpace(ValueString(value)) = << >>
       THEN [cell |-> 0, str |-> << >>, err |-> NoErr]
       ELSE parsedText(unsigned(TrimSpace(ValueString(value))),
                       stringToCell(unsigned(TrimSpace(ValueString(value)))))
  ELSE IF value.t = "string"
  THEN IF TrimSpace(value.s) = << >> THEN [cell |-> 0, str |-> << >>, err |-> NoErr]
       ELSE parsedText(TrimSpace(value.s), stringToCell(TrimSpace(value.s)))
  ELSE IF value.t = "int64"
  THEN [cell |-> Abs(value.i), str |-> IndexToString(Abs(value.i)), err |-> NoErr]
  ELSE IF value.t = "float64"
  THEN [cell |-> Abs(value.i) \div FloatScale,
        str |-> IndexToString(Abs(value.i) \div FloatScale), err |-> NoErr]
  ELSE [cell |-> 0, str |-> << >>, err |-> NoErr]

\* parseCell: [cell, str, err] for a column value
parseCell(value) ==
  CASE value.t = "null" -> [cell |-> 0, str |-> << >>, err |-> NoErr]
    [] value.t = "string" ->
         IF TrimSpace(value.s) = << >> THEN [cell |-> 0, str |-> << >>, err |-> NoErr]
         ELSE parsedText(TrimSpace(value.s), stringToCell(TrimSpace(value.s)))
    [] value.t = "parquet.Value" ->
         \* case fmt.Stringer, which comes before the numeric cases
         IF TrimSpace(ValueString(value)) = << >>
         THEN [cell |-> 0, str |-> << >>, err |-> NoErr]
         ELSE parsedText(TrimSpace(ValueString(value)),
                         stringToCell(TrimSpace(ValueString(value))))
    [] value.t = "int64" ->
         IF value.i < 0
         THEN [cell |-> 0, str |-> FormatInt(value.i),
               err |-> NewErr("negative_integer", FormatInt(value.i))]
         ELSE [cell |-> value.i, str |-> IndexToString(value.i), err |-> NoErr]
    [] value.t = "float64" ->
         \* uint64(v) truncates toward zero
         IF value.i < 0
         THEN [cell |-> 0, str |-> FormatFloat(value.i),
               err |-> NewErr("negative_float", FormatFloat(value.i))]
         ELSE [cell |-> value.i \div FloatScale,
               str |-> IndexToString(value.i \div FloatScale), err |-> NoErr]
    [] OTHER ->
         \* default branch: fmt.Sprint(v), here of a bool
         parsedText(FormatBool(value), stringToCell(FormatBool(value)))

\* cellString of extractCell once the index is known to be non-zero
cellStringOf(p) == IF p.str = << >> THEN IndexToString(p.cell) ELSE p.str

\* the loop of extractCell over the sorted column names; aliasOutcome is the
\* body of the loop for an alias column whose parseCell outcome is p
RECURSIVE extractCellFrom(_, _), aliasOutcome(_, _, _)
aliasOutcome(row, keys, p) ==
  IF p.err # NoErr
  THEN [cell |-> 0, str |-> p.str, err |-> [p.err EXCEPT !.column = keys[1]]]
  ELSE IF p.cell = 0 THEN extractCellFrom(row, Tail(keys))
  ELSE IF ~h3IsValid(p.cell)
  THEN [cell |-> 0, str |-> cellStringOf(p),
        err |-> [NewErr("invalid_h3_cell", << >>) EXCEPT !.column = keys[1]]]
  ELSE [cell |-> p.cell, str |-> cellStringOf(p), err |-> NoErr]

extractCellFrom(row, keys) ==
  IF keys = << >> THEN [cell |-> 0, str |-> << >>, err |-> ErrNoH3Column]
  ELSE IF ~isH3Column(keys[1]) THEN extractCellFrom(row, Tail(keys))
  ELSE aliasOutcome(row, keys, parseCell(row[keys[1]]))

\* extractCell: [cell, str, err] for a row (a map from column name to value)
extractCell(row) ==
  IF DOMAIN row = {} THEN [cell |-> 0, str |-> << >>, err |-> NoErr]
  ELSE extractCellFrom(row, SortStrings(DOMAIN row))

\* extractProperties: every column that is no cell alias
extractProperties(row) ==
  [k \in {c \in DOMAIN row : ~isH3Column(c)} |-> row[k]]

\* the Row fillBuffer appends, from the properties and the extractCell outcome c
decodedRow(props, c, rowNumber) ==
  IF c.err # NoErr
  THEN [RowNumber |-> rowNumber, Cell |-> 0, CellString |-> c.str,
        Resolution |-> -1, Properties |-> props,
        Err |-> [c.err EXCEPT !.row = rowNumber]]
  ELSE IF c.cell = 0
  THEN [RowNumber |-> rowNumber, Cell |-> 0, CellString |-> c.str,
        Resolution |-> -1, Properties |-> props,
        Err |-> [ErrNoH3Column EXCEPT !.row = rowNumber]]
  ELSE [RowNumber |-> rowNumber, Cell |-> c.cell,
        CellString |-> (IF c.str = << >> THEN IndexToString(c.cell) ELSE c.str),
        Resolution |-> h3Resolution(c.cell), Properties |-> props,
        Err |-> NoErr]

\* the body of fillBuffer's loop for one parquet.Row, given as the map from
\* its column names to the values of the file
DecodeRow(row, rowNumber) ==
  decodedRow(extractProperties(rowMapOf(row)), extractCell(rowMapOf(row)), rowNumber)

(***************************************************************************)
(* internal/props: the property filter.                                    *)
(***************************************************************************)
\* the map with no key
EmptyMap == [k \in {} |-> NullVal]

\* filepath.Match for patterns of literals, "?" and "*"
RECURSIVE Match(_, _)
Match(pattern, name) ==
  IF pattern = << >> THEN name = << >>
  ELSE IF pattern[1] = "*"
  THEN \E k \in 0..Len(name) : Match(Tail(pattern), SubSeq(name, k + 1, Len(name)))
  ELSE IF name = << >> THEN FALSE
  ELSE IF pattern[1] = "?" THEN Match(Tail(pattern), Tail(name))
  ELSE pattern[1] = name[1] /\ Match(Tail(pattern), Tail(name))

\* the include keys in list order, trimmed, blanks and repeats skipped
RECURSIVE includeOrderOf(_, _)
includeOrderOf(include, seen) ==
  IF include = << >> THEN << >>
  ELSE IF TrimSpace(include[1]) = << >> \/ TrimSpace(include[1]) \in seen
  THEN includeOrderOf(Tail(include), seen)
  ELSE << TrimSpace(include[1]) >>
         \o includeOrderOf(Tail(include), seen \cup {TrimSpace(include[1])})

\* the drop patterns in list order, trimmed, blanks skipped, repeats kept
RECURSIVE dropPatternsOf(_)
dropPatternsOf(drop) ==
  IF drop = << >> THEN << >>
  ELSE IF TrimSpace(drop[1]) = << >> THEN dropPatternsOf(Tail(drop))
  ELSE << TrimSpace(drop[1]) >> \o dropPatternsOf(Tail(drop))

\* sort.Strings on a list: ascending, every repeat kept.  Place i holds the
\* string with fewer than i entries below it and at least i entries not above it
SortStringList(list) ==
  [i \in 1..Len(list) |->
     CHOOSE x \in Range(list) :
        /\ Cardinality({j \in 1..Len(list) : LexLess(list[j], x)}) < i
        /\ i <= Cardinality({j \in 1..Len(list) : list[j] = x \/ LexLess(list[j], x)})]

\* NewFilter
NewFilter(include, drop, keepAllByDefault) ==
  [ includes         |-> {TrimSpace(include[i]) : i \in 1..Len(include)} \ {<< >>},
    includeOrder     |-> includeOrderOf(include, {}),
    dropPatterns     |-> SortStringList(dropPatternsOf(drop)),
    keepAllByDefault |-> keepAllByDefault ]

\* shouldKeep without the drop patterns
shouldKeepAllowed(f, key) == f.includes = {} \/ key \in f.includes

\* Filter.shouldKeep
shouldKeep(f, key) ==
  IF \E i \in 1..Len(f.dropPatterns) : Match(f.dropPatterns[i], key) THEN FALSE
  ELSE IF f.includes = {} THEN TRUE
  ELSE key \in f.includes

\* Filter.Apply with an empty include list read as "keep everything"
FilterApplyKeepAll(f, props) ==
  IF DOMAIN props = {} THEN EmptyMap
  ELSE [k \in {x \in DOMAIN props : shouldKeep(f, x)} |-> props[k]]

\* Filter.Apply
FilterApply(f, props) ==
  IF DOMAIN props = {} THEN EmptyMap
  ELSE IF f.includes # {}
  THEN [k \in {x \in f.includes : x \in DOMAIN props /\ shouldKeep(f, x)} |-> props[k]]
  ELSE IF f.keepAllByDefault
  THEN [k \in {x \in DOMAIN props : shouldKeep(f, x)} |-> props[k]]
  ELSE EmptyMap

(***************************************************************************)
(* internal/props: the quantizer.  A float64 keeps MantissaBits            *)
(* significant bits; float property values are counted in units of         *)
(* 1/FloatScale.  A step is the float num/den, den a power of two that     *)
(* divides FloatScale.  Integers stay inside the int64 range.              *)
(***************************************************************************)
Step(num, den) == [num |-> num, den |-> den]
NoStep == Step(0, 1)

\* math.Round(a / b) for b > 0: nearest integer, halves away from zero
RoundDiv(a, b) ==
  IF a >= 0 THEN (2 * a + b) \div (2 * b) ELSE 0 - ((2 * (0 - a) + b) \div (2 * b))

\* int64(a / b) for b > 0: truncation toward zero
TruncDiv(a, b) == IF a >= 0 THEN a \div b ELSE 0 - ((0 - a) \div b)

\* the k with 2^k <= n/d < 2^(k+1), for n > 0 and d > 0
RECURSIVE floorLog2(_, _)
floorLog2(n, d) ==
  IF n >= 2 * d THEN floorLog2(n, 2 * d) + 1
  ELSE IF n < d THEN floorLog2(2 * n, d) - 1
  ELSE 0

\* n/d rounded to the nearest integer, halves to the even one
RoundHalfEven(n, d) ==
  IF 2 * (n % d) > d \/ (2 * (n % d) = d /\ (n \div d) % 2 = 1)
  THEN (n \div d) + 1 ELSE n \div d

\* a/d > 0 rounded to MantissaBits significant bits, the last of weight 2^e
float64At(a, d, e) ==
  IF e >= 0 THEN [num |-> RoundHalfEven(a, d * Pow2(e)) * Pow2(e), den |-> 1]
  ELSE [num |-> RoundHalfEven(a * Pow2(0 - e), d), den |-> Pow2(0 - e)]

\* the integers below this magnitude are floats themselves
ExactBelow == Pow2(MantissaBits)

\* the float64 nearest to n/d (d > 0), as the fraction num/den
float64Of(n, d) ==
  IF n = 0 THEN [num |-> 0, den |-> 1]
  ELSE IF d = 1 /\ n < ExactBelow /\ 0 - n < ExactBelow THEN [num |-> n, den |-> 1]
  ELSE IF n > 0 THEN float64At(n, d, floorLog2(n, d) - (MantissaBits - 1))
  ELSE [float64At(0 - n, d, floorLog2(0 - n, d) - (MantissaBits - 1))
          EXCEPT !.num = 0 - @]

\* math.Round of a float
roundOf(f) == RoundDiv(f.num, f.den)
\* int64(f)
truncOf(f) == TruncDiv(f.num, f.den)
\* a float counted in units of 1/FloatScale
unitsOf(f) == (f.num * FloatScale) \div f.den
\* f / step
quotientOf(f, step) == float64Of(f.num * step.den, f.den * step.num)

\* lookupStep that asks the type default before the per-field override
lookupStepTypeFirst(q, key, value) ==
  IF value.t = "float64" /\ q.FloatStep.num > 0 THEN q.FloatStep
  ELSE IF value.t = "int64" /\ q.IntStep.num > 0 THEN q.IntStep
  ELSE IF key \in DOMAIN q.FieldSteps THEN q.FieldSteps[key]
  ELSE NoStep

\* Quantizer.lookupStep
lookupStep(q, key, value) ==
  IF key \in DOMAIN q.FieldSteps THEN q.FieldSteps[key]
  ELSE IF value.t = "float64" THEN q.FloatStep
  ELSE IF value.t = "int64" THEN q.IntStep
  ELSE NoStep

\* what quantizeFloat64 and quantizeInt64 return: [value, diff, changed]
unchangedAt(value) == [value |-> value, diff |-> 0, changed |-> FALSE]
changedTo(value, quantized, diff) ==
  IF diff = 0 THEN unchangedAt(value)
  ELSE [value |-> quantized, diff |-> diff, changed |-> TRUE]

\* quantizeFloat64; value, the result and diff in units of 1/FloatScale
quantizeFloat64(value, step) ==
  IF step.num <= 0 THEN unchangedAt(value)
  ELSE LET quantized ==
             unitsOf(float64Of(roundOf(quotientOf(float64Of(value, FloatScale), step))
                                 * step.num, step.den))
       IN  changedTo(value, quantized,
                     unitsOf(float64Of(Abs(quantized - value), FloatScale)))

\* quantizeInt64; diff in units of 1/FloatScale
quantizeInt64(value, step) ==
  IF step.num <= 0 THEN unchangedAt(value)
  ELSE LET quantized ==
             truncOf(float64Of(roundOf(quotientOf(float64Of(value, 1), step))
                                 * step.num, step.den))
       IN  IF quantized = value THEN unchangedAt(value)
           ELSE changedTo(value, quantized,
                          Abs(unitsOf(float64Of(quantized, 1))
                                - unitsOf(float64Of(value, 1))))

\* one iteration of the loop of Quantizer.Apply: [value, diff, changed]
quantizedEntry(q, key, value) ==
  IF value.t = "null" THEN unchangedAt(value)
  ELSE LET step == lookupStep(q, key, value)
       IN  IF step.num <= 0 THEN unchangedAt(value)
           ELSE IF value.t = "float64"
           THEN [quantizeFloat64(value.i, step) EXCEPT !.value = FloatVal(@)]
           ELSE IF value.t = "int64"
           THEN [quantizeInt64(value.i, step) EXCEPT !.value = IntVal(@)]
           ELSE unchangedAt(value)

\* the value Quantizer.Apply leaves under one key
quantizedValue(q, key, value) == quantizedEntry(q, key, value).value

\* the sum of the integers f[x], x in S
RECURSIVE SumOver(_, _)
SumOver(S, f) ==
  IF S = {} THEN 0
  ELSE LET x == CHOOSE y \in S : TRUE IN f[x] + SumOver(S \ {x}, f)

\* a + b of two floats counted in units of 1/FloatScale: the sum rounded to a float
float64Add(a, b) == unitsOf(float64Of(a + b, FloatScale))

\* total += f[k] for the keys k in the order of the sequence keys
RECURSIVE floatSumIn(_, _, _)
floatSumIn(keys, f, total) ==
  IF keys = << >> THEN total
  ELSE floatSumIn(Tail(keys), f, float64Add(total, f[keys[1]]))

\* the totals that total += f[k] can reach over the keys of S taken in any order
RECURSIVE floatSums(_, _, _)
floatSums(S, f, total) ==
  IF S = {} THEN {total}
  ELSE UNION { floatSums(S \ {k}, f, float64Add(total, f[k])) : k \in S }

\* Quantizer.Apply: the map after rounding and the Result statistics
\* (TotalAbsError in units of 1/FloatScale).  The loop ranges over a Go map,
\* whose order is not fixed: result is the Result when the keys come in byte
\* order, totals the values TotalAbsError takes over all orders.
QuantizerApply(q, props) ==
  LET entries == [k \in DOMAIN props |-> quantizedEntry(q, k, props[k])]
      changedKeys == {k \in DOMAIN props : entries[k].changed}
      diffs == [k \in changedKeys |-> entries[k].diff]
  IN  [ props  |-> [k \in DOMAIN props |-> entries[k].value],
        result |-> [Changes |-> Cardinality(changedKeys),
                    TotalAbsError |-> floatSumIn(SortStrings(changedKeys), diffs, 0)],
        totals |-> floatSums(changedKeys, diffs, 0) ]

(***************************************************************************)
(* encoding/json: the byte length of a marshalled property object.         *)
(***************************************************************************)
\* the characters json.Marshal writes as \u003c, \u003e, \u0026
HTMLEscaped == {"<", ">", "&"}

\* bytes of a marshalled string: the quotes, one byte for a character, six
\* for one that is escaped
jsonStringLen(text) ==
  2 + Len(text) + 5 * Cardinality({i \in 1..Len(text) : text[i] \in HTMLEscaped})

\* bytes of one marshalled value
jsonValueLen(value) ==
  CASE value.t = "null" -> 4
    \* a struct with no exported field and no marshaller: {}
    [] value.t = "parquet.Value" -> 2
    [] value.t = "bool" -> IF value.i = 1 THEN 4 ELSE 5
    [] value.t = "int64" -> Len(FormatInt(value.i))
    [] value.t = "float64" -> Len(FormatFloat(value.i))
    [] OTHER -> jsonStringLen(value.s)

\* len(json.Marshal(props)): braces, "key":value entries, commas between them
jsonLen(props) ==
  LET n == Cardinality(DOMAIN props)
      entry == [k \in DOMAIN props |-> jsonStringLen(k) + 1 + jsonValueLen(props[k])]
  IN  2 + SumOver(DOMAIN props, entry) + (IF n > 0 THEN n - 1 ELSE 0)

(***************************************************************************)
(* internal/build: configuration and the per-row transformation.           *)
(***************************************************************************)
\* the default property cap that Run substitutes (2 KB)
DefaultPropertyCap == 2 * 1024

\* runtime.NumCPU
NumCPU == MaxThreads

K_h3 == <<"h","3">>
K_resolution == <<"r","e","s","o","l","u","t","i","o","n">>

\* the processConfig that Run builds from Options
RunConfig(opts) ==
  [ Options     |-> opts,
    Threads     |-> IF opts.Threads <= 0 THEN NumCPU ELSE opts.Threads,
    PropertyCap |-> IF opts.PropertyByteCap <= 0 THEN DefaultPropertyCap
                    ELSE opts.PropertyByteCap,
    Quantizer   |-> opts.Quantize,
    Filter      |-> NewFilter(opts.PropertyInclude, opts.PropertyDrop, FALSE) ]

\* the largest zoom level of the tiler
MaxTileZoom == 15
\* the smallest derived maximum zoom
MinDerivedMaxZoom == 12

\* deriveZooms whose derived maximum has no lower limit
deriveZoomsNoFloor(o, m) ==
  LET minZoom  == IF o.MinZoom < 0 THEN 0 ELSE o.MinZoom
      computed == m.MaxResolutionSeen + 2
      derived  == IF o.MaxZoom >= 0 THEN o.MaxZoom
                  ELSE IF computed > MaxTileZoom THEN MaxTileZoom
                  ELSE computed
      raised   == IF derived < minZoom THEN minZoom ELSE derived
  IN  [ minZoom |-> minZoom,
        maxZoom |-> IF raised > MaxTileZoom THEN MaxTileZoom ELSE raised ]

\* deriveZooms with the maximum raised to the minimum last
deriveZoomsRaisedLast(o, m) ==
  LET minZoom  == IF o.MinZoom < 0 THEN 0 ELSE o.MinZoom
      computed == m.MaxResolutionSeen + 2
      derived  == IF o.MaxZoom >= 0 THEN o.MaxZoom
                  ELSE IF m.MaxResolutionSeen <= 0 THEN MinDerivedMaxZoom
                  ELSE IF computed < MinDerivedMaxZoom THEN MinDerivedMaxZoom
                  ELSE IF computed > MaxTileZoom THEN MaxTileZoom
                  ELSE computed
      capped   == IF derived > MaxTileZoom THEN MaxTileZoom ELSE derived
  IN  [ minZoom |-> minZoom,
        maxZoom |-> IF capped < minZoom THEN minZoom ELSE capped ]

\* deriveZooms: [minZoom, maxZoom]
deriveZooms(o, m) ==
  LET minZoom  == IF o.MinZoom < 0 THEN 0 ELSE o.MinZoom
      computed == m.MaxResolutionSeen + 2
      derived  == IF o.MaxZoom >= 0 THEN o.MaxZoom
                  ELSE IF m.MaxResolutionSeen <= 0 THEN MinDerivedMaxZoom
                  ELSE IF computed < MinDerivedMaxZoom THEN MinDerivedMaxZoom
                  ELSE IF computed > MaxTileZoom THEN MaxTileZoom
                  ELSE computed
      raised   == IF derived < minZoom THEN minZoom ELSE derived
  IN  [ minZoom |-> minZoom,
        maxZoom |-> IF raised > MaxTileZoom THEN MaxTileZoom ELSE raised ]

\* h3geom.PolygonFromCell: [ok, polygon]; the polygon is named by its cell
PolygonFromCell(cell) ==
  IF ~h3IsValid(cell) THEN [ok |-> FALSE, polygon |-> 0]
  ELSE [ok |-> TRUE, polygon |-> cell]

\* the zero ndjson.Feature
NoFeature == [ID |-> << >>, Geometry |-> 0, Properties |-> EmptyMap]

\* the zero props.Result
NoQuant == [Changes |-> 0, TotalAbsError |-> 0]

\* the featureResult buildFeature starts from
newResult(row) ==
  [ RowNumber |-> row.RowNumber, CellString |-> row.CellString,
    Resolution |-> row.Resolution, Feature |-> NoFeature,
    PropertyBytes |-> 0, PropertyCount |-> 0, QuantResult |-> NoQuant,
    Dropped |-> FALSE, DropReason |-> "", DropDetail |-> NoErr, Err |-> NoErr ]

\* a Go map as a function holds it: its entries m, and own, which says whether
\* its storage is apart from the storage of row.Properties
\* a cloneMap that returns the map it was given
cloneMapShared(src) == [m |-> src, own |-> FALSE]

\* cloneMap: a new map with the entries of src
cloneMap(src) == [m |-> [k \in DOMAIN src |-> src[k]], own |-> TRUE]

\* cfg.Filter == nil
NilFilter == [nil |-> TRUE]

\* the system fields set on the filtered map
withSystemFields(filtered, row) ==
  [k \in DOMAIN filtered \cup {K_h3, K_resolution} |->
     IF k = K_h3 THEN StrVal(row.CellString)
     ELSE IF k = K_resolution THEN IntVal(row.Resolution)
     ELSE filtered[k]]

\* a cap test that also rejects a payload of exactly the cap
exceedsCapInclusive(bytes, cap) == cap > 0 /\ bytes >= cap

\* cfg.PropertyCap > 0 && result.PropertyBytes > cfg.PropertyCap
exceedsCap(bytes, cap) == cap > 0 /\ bytes > cap

\* is the row's resolution outside the configured bounds
outsideResolution(resolution, o) ==
  \/ o.MinResolution >= 0 /\ resolution < o.MinResolution
  \/ o.MaxResolution >= 0 /\ resolution > o.MaxResolution

\* an order of the steps that builds the polygon before the cap is checked
buildFeatureOrderEager ==
  << "cell", "resolution", "filter", "quantize", "marshal", "polygon", "cap", "feature" >>

\* the steps with the resolution bounds checked before the cell
buildFeatureOrderBoundsFirst ==
  << "resolution", "cell", "filter", "quantize", "marshal", "cap", "polygon", "feature" >>

\* the steps of buildFeature in the order of its statements
buildFeatureOrder ==
  << "cell", "resolution", "filter", "quantize", "marshal", "cap", "polygon", "feature" >>

\* the result of Quantizer.Apply stored into the build state
quantized(st, q) ==
  [st EXCEPT !.props = q.props, !.res.QuantResult = q.result, !.totals = q.totals,
             !.rowProps = IF st.own THEN @ ELSE q.props]

\* the filtered map with its system fields stored into the build state; the
\* writes reach row.Properties when the map shares its storage
filteredInto(st, filtered, row) ==
  [st EXCEPT !.props = withSystemFields(filtered.m, row),
             !.own = filtered.own,
             !.rowProps = IF filtered.own THEN @ ELSE withSystemFields(filtered.m, row)]

\* the outcome of PolygonFromCell stored into the build state
polygonized(st, row, poly) ==
  IF poly.ok THEN [st EXCEPT !.polygon = poly.polygon]
  ELSE [st EXCEPT !.done = TRUE, !.res.Err = NewErr("polygonize", row.CellString)]

\* a treatment of the undecodable cell as a fatal error of the run
invalidCellFatal(st, row) == [st EXCEPT !.done = TRUE, !.res.Err = row.Err]

\* the drop of a row whose cell did not decode: if row.Err != nil { ... }
invalidCell(st, row) ==
  [st EXCEPT !.done = TRUE, !.res.Resolution = -1, !.res.Dropped = TRUE,
             !.res.DropReason = "invalid_h3", !.res.DropDetail = row.Err]

\* one step of buildFeature on the build state
\* st = [res: the featureResult, props: the property map, polygon, stages, done]
buildStep(st0, step, row, c) ==
  LET st == [st0 EXCEPT !.stages = Append(@, step)]
  IN  CASE step = "cell" ->
             IF row.Err # NoErr THEN invalidCell(st, row) ELSE st
        [] step = "resolution" ->
             IF outsideResolution(row.Resolution, c.Options)
             THEN [st EXCEPT !.done = TRUE, !.res.Dropped = TRUE,
                             !.res.DropReason = "resolution"]
             ELSE st
        [] step = "filter" ->
             LET propsMap == cloneMap(row.Properties)
             IN  filteredInto(st,
                              IF c.Filter # NilFilter
                              THEN [m |-> FilterApply(c.Filter, propsMap.m), own |-> TRUE]
                              ELSE propsMap,
                              row)
        [] step = "quantize" -> quantized(st, QuantizerApply(c.Quantizer, st.props))
        [] step = "marshal" ->
             [st EXCEPT !.res.PropertyBytes = jsonLen(st.props),
                        !.res.PropertyCount = Cardinality(DOMAIN st.props)]
        [] step = "cap" ->
             IF exceedsCap(st.res.PropertyBytes, c.PropertyCap)
             THEN [st EXCEPT !.done = TRUE, !.res.Dropped = TRUE,
                             !.res.DropReason = "property_cap"]
             ELSE st
        [] step = "polygon" -> polygonized(st, row, PolygonFromCell(row.Cell))
        [] OTHER ->
             [st EXCEPT !.done = TRUE,
                        !.res.Feature = [ID |-> row.CellString, Geometry |-> st.polygon,
                                         Properties |-> st.props]]

\* the steps run in order until one returns
RECURSIVE buildSteps(_, _, _, _)
buildSteps(st, steps, row, c) ==
  IF st.done \/ steps = << >> THEN st
  ELSE buildSteps(buildStep(st, steps[1], row, c), Tail(steps), row, c)

\* buildFeature with the steps it went through
buildFeatureRun(row, c) ==
  buildSteps([res |-> newResult(row), props |-> EmptyMap, own |-> TRUE,
              rowProps |-> row.Properties, polygon |-> 0,
              totals |-> {0}, stages |-> << >>, done |-> FALSE],
             buildFeatureOrder, row, c)

\* buildFeature, the differences of the quantizer added up in byte order of the keys
buildFeature(row, c) == buildFeatureRun(row, c).res

\* the featureResult of the run b when the quantizer's total came out as total
resultWith(b, total) ==
  IF b.res.QuantResult.Changes = 0 THEN b.res
  ELSE [b.res EXCEPT !.QuantResult.TotalAbsError = total]

(***************************************************************************)
(* State of one build.Run.                                                 *)
(***************************************************************************)
VARIABLES
  source,         \* the Parquet rows: a sequence of maps column name -> value
  opts,           \* build.Options
  reader,         \* parquet.Reader: buffer, cursor, read, closed
  prod,           \* the producer goroutine: pc and the row it holds
  workers,        \* the worker goroutines, which are alike: the bag of their
                  \* states (pc, the result held, the steps buildFeature took)
  results,        \* the buffered results channel
  resultsClosed,  \* close(results) has run
  main,           \* the reassembly loop of processRows: pc and the error to return
  loc,            \* its locals: expected, pending, resolution range, samples
  metrics,        \* Report.Metrics
  sink,           \* the features written by ndjson.Writer.WriteFeature, in order
  cancelled,      \* cancel() of the context derived in processRows was called
  parentDone,     \* the caller's context is done
  run,            \* where build.Run is: processRows, tippecanoe, convert, finish, done, failed
  config,         \* Report.Config: MinZoom and MaxZoom
  effects,        \* what Run has done after processRows: the writer closed, the
                  \* outcome of each collaborator call, the report written
  call            \* a function of the build called on its own: name, arguments, result

vars == << source, opts, reader, prod, workers, results, resultsClosed, main, loc,
           metrics, sink, cancelled, parentDone, run, config, effects, call >>

\* Reader batch size that Run passes to NewReader
BatchSize == 4096
propertyWarningLimit == 20
propertyWarnCountThreshold == 15
propertyWarnBytesThreshold == 20 * 1024
invalidSampleLimit == 10

cfg == RunConfig(opts)
Threads == cfg.Threads
totalRows == Len(source)

\* ctx.Done() of the context processRows derives from the caller's
ctxDone == cancelled \/ parentDone

NoRow == [RowNumber |-> 0, Cell |-> 0, CellString |-> << >>, Resolution |-> -1,
          Properties |-> EmptyMap, Err |-> NoErr]

\* featureResult{Err: err}
errResult(err) == [newResult(NoRow) EXCEPT !.Resolution = 0, !.Err = err]

\* no function is called on its own
NoCall == [fn |-> "none"]

\* a worker that holds no result
idleWorker(pc) == [pc |-> pc, fr |-> errResult(NoErr), stages |-> << >>]

InitMetrics ==
  [ TotalRows |-> 0, EmittedFeatures |-> 0, DroppedInvalidH3 |-> 0,
    DroppedResolution |-> 0, DroppedPropertyCap |-> 0, DroppedOther |-> 0,
    ResolutionHistogram |-> [r \in {} |-> 0],
    MinResolutionSeen |-> 0, MaxResolutionSeen |-> 0,
    QuantizeApplied |-> FALSE, QuantizeChanges |-> 0, QuantizeTotalError |-> 0,
    PropertyWarnings |-> << >>, Warnings |-> << >> ]

InitLoc ==
  [ expected |-> 1, pending |-> [n \in {} |-> errResult(NoErr)],
    propertyWarnings |-> 0, invalidSamples |-> << >>,
    minResSeen |-> 0, maxResSeen |-> 0, resInitialised |-> FALSE ]

\* Run has closed no writer, called no collaborator and written no report
NoEffects == [writerClosed |-> FALSE, tiler |-> "none", convert |-> "none",
              info |-> "none", report |-> "none"]

\* NewReader: a batch size of zero or less becomes 4096
NewReader(batchSize) ==
  [buffer |-> << >>, cursor |-> 0, read |-> 0, closed |-> FALSE,
   batch |-> IF batchSize <= 0 THEN 4096 ELSE batchSize]

\* the variables of Run as it calls processRows
InitPipeline ==
  /\ reader = NewReader(BatchSize)
  /\ prod = [pc |-> "next", row |-> NoRow, err |-> NoErr]
  /\ workers = [w \in {idleWorker("recv")} |-> Threads]
  /\ results = << >>
  /\ resultsClosed = FALSE
  /\ main = [pc |-> "recv", err |-> NoErr, ret |-> "running"]
  /\ loc = InitLoc
  /\ metrics = InitMetrics
  /\ sink = << >>
  /\ cancelled = FALSE
  /\ parentDone = FALSE
  /\ run = "processRows"
  /\ config = [MinZoom |-> opts.MinZoom, MaxZoom |-> opts.MaxZoom]
  /\ effects = NoEffects

\* the state Run has built when it calls processRows, no function called apart
InitState ==
  /\ InitPipeline
  /\ call = NoCall

(***************************************************************************)
(* parquet.Reader.Next and fillBuffer.                                     *)
(***************************************************************************)
Min(a, b) == IF a < b THEN a ELSE b

\* a refill that numbers the rows of each batch from one
fillBufferPerBatch(r, ioFail, got) ==
  IF r.read >= totalRows THEN [reader |-> r, err |-> "EOF"]
  ELSE LET n == Min(got, Min(r.batch, totalRows - r.read))
       IN  IF ioFail THEN [reader |-> r, err |-> "read_parquet_rows"]
           ELSE IF n = 0 THEN [reader |-> r, err |-> "EOF"]
           ELSE [reader |-> [r EXCEPT
                   !.buffer = [i \in 1..n |-> DecodeRow(source[r.read + i], i)],
                   !.cursor = 0,
                   !.read = r.read + n],
                 err |-> ""]

\* fillBuffer: [reader, err]; ioFail says whether ReadRows fails, got is the
\* number of rows ReadRows has for a request of any size
fillBuffer(r, ioFail, got) ==
  IF r.read >= totalRows THEN [reader |-> r, err |-> "EOF"]
  ELSE LET n == Min(got, Min(r.batch, totalRows - r.read))
       IN  IF ioFail THEN [reader |-> r, err |-> "read_parquet_rows"]
           ELSE IF n = 0 THEN [reader |-> r, err |-> "EOF"]
           ELSE [reader |-> [r EXCEPT
                   !.buffer = [i \in 1..n |-> DecodeRow(source[r.read + i], r.read + i)],
                   !.cursor = 0,
                   !.read = r.read + n],
                 err |-> ""]

\* Reader.Next after the refill f (if any): [reader, row, err]
nextAfterFill(f) ==
  IF f.err # "" THEN [reader |-> f.reader, row |-> NoRow, err |-> f.err]
  ELSE IF f.reader.cursor >= Len(f.reader.buffer)
  THEN [reader |-> f.reader, row |-> NoRow, err |-> "EOF"]
  ELSE [reader |-> [f.reader EXCEPT !.cursor = @ + 1],
        row |-> f.reader.buffer[f.reader.cursor + 1], err |-> ""]

\* Reader.Next: [reader, row, err]
ReaderNext(r, ioFail, got) ==
  IF r.closed THEN [reader |-> r, row |-> NoRow, err |-> "reader_closed"]
  ELSE IF r.cursor >= Len(r.buffer) THEN nextAfterFill(fillBuffer(r, ioFail, got))
  ELSE nextAfterFill([reader |-> r, err |-> ""])

(***************************************************************************)
(* processRows: the producer goroutine.                                    *)
(***************************************************************************)
\* row, err := reader.Next(); ReadRows fills the whole request
ProducerNext(ioFail) ==
  /\ prod.pc = "next"
  /\ \E n \in {ReaderNext(reader, ioFail, reader.batch)} :
         /\ reader' = n.reader
         /\ prod' = IF n.err = "EOF" THEN [pc |-> "done", row |-> NoRow, err |-> NoErr]
                    ELSE IF n.err # ""
                    THEN [pc |-> "sendErr", row |-> NoRow, err |-> NewErr(n.err, << >>)]
                    ELSE [pc |-> "send", row |-> n.row, err |-> NoErr]
  /\ UNCHANGED << call, config, effects, source, opts, workers, results, resultsClosed, main, loc, metrics,
                  sink, cancelled, parentDone, run >>

\* select: case <-ctx.Done() while holding a row or an error
ProducerCtxDone ==
  /\ prod.pc \in {"send", "sendErr"}
  /\ ctxDone
  /\ prod' = [pc |-> "done", row |-> NoRow, err |-> NoErr]
  /\ UNCHANGED << call, config, effects, source, opts, reader, workers, results, resultsClosed, main, loc,
                  metrics, sink, cancelled, parentDone, run >>

\* select: case results <- featureResult{Err: ...}; a send on the closed channel panics
ProducerSendErr ==
  /\ prod.pc = "sendErr"
  /\ \/ /\ ~resultsClosed
        /\ Len(results) < 2 * Threads
        /\ results' = Append(results, errResult(prod.err))
        /\ prod' = [pc |-> "done", row |-> NoRow, err |-> NoErr]
     \/ /\ resultsClosed
        /\ results' = results
        /\ prod' = [prod EXCEPT !.pc = "panic"]
  /\ UNCHANGED << call, config, effects, source, opts, reader, workers, resultsClosed, main, loc, metrics,
                  sink, cancelled, parentDone, run >>

\* the jobs channel is closed when the producer has returned
jobsClosed == prod.pc = "done"

\* the panic of the producer goroutine has ended the process
crashed == prod.pc = "panic"

(***************************************************************************)
(* workerLoop.                                                             *)
(***************************************************************************)
\* the bag of workers after the worker in state w has moved to state v
moved(w, v) == (workers (-) SetToBag({w})) (+) SetToBag({v})

\* case row, ok := <-jobs with ok: the rendezvous with the producer's jobs <- row,
\* then fr := buildFeature(row, cfg)
WorkerRecv(w) ==
  /\ w.pc = "recv"
  /\ prod.pc = "send"
  /\ \E b \in {buildFeatureRun(prod.row, cfg)} :
       \E total \in b.totals :
          workers' = moved(w, [pc |-> "send", fr |-> resultWith(b, total),
                               stages |-> b.stages])
  /\ prod' = [pc |-> "next", row |-> NoRow, err |-> NoErr]
  /\ UNCHANGED << call, config, effects, source, opts, reader, results, resultsClosed, main, loc, metrics,
                  sink, cancelled, parentDone, run >>

\* a worker that goes on waiting on the closed jobs channel
WorkerJobsClosedWaits(w) ==
  /\ w.pc = "recv"
  /\ jobsClosed
  /\ workers' = moved(w, idleWorker("recv"))
  /\ UNCHANGED << call, config, effects, source, opts, reader, prod, results, resultsClosed, main, loc,
                  metrics, sink, cancelled, parentDone, run >>

\* case row, ok := <-jobs with !ok
WorkerJobsClosed(w) ==
  /\ w.pc = "recv"
  /\ jobsClosed
  /\ workers' = moved(w, idleWorker("done"))
  /\ UNCHANGED << call, config, effects, source, opts, reader, prod, results, resultsClosed, main, loc,
                  metrics, sink, cancelled, parentDone, run >>

\* case <-ctx.Done(), in either select
WorkerCtxDone(w) ==
  /\ ~crashed
  /\ w.pc \in {"recv", "send"}
  /\ ctxDone
  /\ workers' = moved(w, idleWorker("done"))
  /\ UNCHANGED << call, config, effects, source, opts, reader, prod, results, resultsClosed, main, loc,
                  metrics, sink, cancelled, parentDone, run >>

\* a send that does not wait for room in the results channel
WorkerSendUnbounded(w) ==
  /\ ~crashed
  /\ w.pc = "send"
  /\ results' = Append(results, w.fr)
  /\ workers' = moved(w, idleWorker("recv"))
  /\ UNCHANGED << call, config, effects, source, opts, reader, prod, resultsClosed, main, loc, metrics,
                  sink, cancelled, parentDone, run >>

\* a worker that counts the row itself as it sends the result
WorkerSendCounting(w) ==
  /\ ~crashed
  /\ w.pc = "send"
  /\ Len(results) < 2 * Threads
  /\ results' = Append(results, w.fr)
  /\ workers' = moved(w, idleWorker("recv"))
  /\ metrics' = [metrics EXCEPT !.TotalRows = @ + 1]
  /\ UNCHANGED << call, config, effects, source, opts, reader, prod, resultsClosed, main, loc,
                  sink, cancelled, parentDone, run >>

\* case results <- fr
WorkerSend(w) ==
  /\ ~crashed
  /\ w.pc = "send"
  /\ Len(results) < 2 * Threads
  /\ results' = Append(results, w.fr)
  /\ workers' = moved(w, idleWorker("recv"))
  /\ UNCHANGED << call, config, effects, source, opts, reader, prod, resultsClosed, main, loc, metrics,
                  sink, cancelled, parentDone, run >>

\* wg.Wait() has returned
allWorkersDone == \A w \in BagToSet(workers) : w.pc = "done"

\* go func() { wg.Wait(); close(results) }()
CloseResults ==
  /\ ~crashed
  /\ allWorkersDone
  /\ ~resultsClosed
  /\ resultsClosed' = TRUE
  /\ UNCHANGED << call, config, effects, source, opts, reader, prod, workers, results, main, loc, metrics,
                  sink, cancelled, parentDone, run >>

(***************************************************************************)
(* processRows: the reassembly loop and its accounting.                    *)
(***************************************************************************)
\* Report.IncrementHistogram
IncrementHistogram(h, resolution) ==
  IF resolution \in DOMAIN h THEN [h EXCEPT ![resolution] = @ + 1]
  ELSE [r \in DOMAIN h \cup {resolution} |-> IF r = resolution THEN 1 ELSE h[r]]

\* an accounting that counts a row only when its cell decoded
countRowValidOnly(st, fr) ==
  IF fr.Resolution >= 0
  THEN [st EXCEPT !.m.TotalRows = @ + 1,
                  !.m.ResolutionHistogram = IncrementHistogram(@, fr.Resolution)]
  ELSE st

\* the resolution range taken over the rows that are kept only
countRowKeptOnly(st, fr) ==
  LET m1 == [st.m EXCEPT !.TotalRows = @ + 1]
  IN  IF fr.Resolution >= 0
      THEN [ m |-> [m1 EXCEPT !.ResolutionHistogram =
                                 IncrementHistogram(@, fr.Resolution)],
             l |-> IF fr.Dropped THEN st.l
                   ELSE IF ~st.l.resInitialised
                   THEN [st.l EXCEPT !.minResSeen = fr.Resolution,
                                     !.maxResSeen = fr.Resolution,
                                     !.resInitialised = TRUE]
                   ELSE [st.l EXCEPT !.minResSeen = Min(@, fr.Resolution),
                                     !.maxResSeen = IF fr.Resolution > @
                                                    THEN fr.Resolution ELSE @] ]
      ELSE [m |-> m1, l |-> st.l]

\* TotalRows++, the histogram and the resolution range, for a released result;
\* st is [m: Report.Metrics, l: the locals of processRows]
countRow(st, fr) ==
  LET m1 == [st.m EXCEPT !.TotalRows = @ + 1]
  IN  IF fr.Resolution >= 0
      THEN [ m |-> [m1 EXCEPT !.ResolutionHistogram =
                                 IncrementHistogram(@, fr.Resolution)],
             l |-> IF ~st.l.resInitialised
                   THEN [st.l EXCEPT !.minResSeen = fr.Resolution,
                                     !.maxResSeen = fr.Resolution,
                                     !.resInitialised = TRUE]
                   ELSE [st.l EXCEPT !.minResSeen = Min(@, fr.Resolution),
                                     !.maxResSeen = IF fr.Resolution > @
                                                    THEN fr.Resolution ELSE @] ]
      ELSE [m |-> m1, l |-> st.l]

\* report.PropertyWarning
propertyWarning(fr, kind) ==
  [ RowNumber |-> fr.RowNumber, H3 |-> fr.CellString,
    PropertyCount |-> fr.PropertyCount, PropertyBytes |-> fr.PropertyBytes,
    Message |-> kind ]

\* the switch on fr.DropReason with no limit on the samples kept
countDropUncapped(st, fr) ==
  CASE fr.DropReason = "resolution" ->
         [st EXCEPT !.m.DroppedResolution = @ + 1]
    [] fr.DropReason = "property_cap" ->
         [ m |-> [st.m EXCEPT
                    !.DroppedPropertyCap = @ + 1,
                    !.PropertyWarnings = Append(@, propertyWarning(fr, "dropped"))],
           l |-> [st.l EXCEPT !.propertyWarnings = @ + 1] ]
    [] fr.DropReason = "invalid_h3" ->
         [ m |-> [st.m EXCEPT !.DroppedInvalidH3 = @ + 1],
           l |-> [st.l EXCEPT !.invalidSamples =
                    Append(@, [row |-> fr.RowNumber, cell |-> fr.CellString,
                               detail |-> fr.DropDetail])] ]
    [] OTHER -> [st EXCEPT !.m.DroppedOther = @ + 1]

\* the switch on fr.DropReason
countDrop(st, fr) ==
  CASE fr.DropReason = "resolution" ->
         [st EXCEPT !.m.DroppedResolution = @ + 1]
    [] fr.DropReason = "property_cap" ->
         [ m |-> [st.m EXCEPT
                    !.DroppedPropertyCap = @ + 1,
                    !.PropertyWarnings =
                       IF st.l.propertyWarnings < propertyWarningLimit
                       THEN Append(@, propertyWarning(fr, "dropped")) ELSE @],
           l |-> [st.l EXCEPT !.propertyWarnings = @ + 1] ]
    [] fr.DropReason = "invalid_h3" ->
         [ m |-> [st.m EXCEPT !.DroppedInvalidH3 = @ + 1],
           l |-> [st.l EXCEPT !.invalidSamples =
                    IF Len(@) < invalidSampleLimit
                    THEN Append(@, [row |-> fr.RowNumber, cell |-> fr.CellString,
                                    detail |-> fr.DropDetail])
                    ELSE @] ]
    [] OTHER -> [st EXCEPT !.m.DroppedOther = @ + 1]

\* the accounting after a successful WriteFeature with no warning for a
\* large payload
countEmitQuiet(st, fr) ==
  LET m1 == [st.m EXCEPT !.EmittedFeatures = @ + 1]
  IN  IF fr.QuantResult.Changes > 0
      THEN [m |-> [m1 EXCEPT !.QuantizeApplied = TRUE,
                             !.QuantizeChanges = @ + fr.QuantResult.Changes,
                             !.QuantizeTotalError =
                                float64Add(@, fr.QuantResult.TotalAbsError)],
            l |-> st.l]
      ELSE [m |-> m1, l |-> st.l]

\* the accounting after a successful WriteFeature
countEmit(st, fr) ==
  LET m1 == [st.m EXCEPT !.EmittedFeatures = @ + 1]
      m2 == IF fr.QuantResult.Changes > 0
            THEN [m1 EXCEPT !.QuantizeApplied = TRUE,
                            !.QuantizeChanges = @ + fr.QuantResult.Changes,
                            !.QuantizeTotalError =
                               float64Add(@, fr.QuantResult.TotalAbsError)]
            ELSE m1
  IN  IF fr.PropertyCount > propertyWarnCountThreshold
         \/ fr.PropertyBytes > propertyWarnBytesThreshold
      THEN [ m |-> [m2 EXCEPT !.PropertyWarnings =
                      IF st.l.propertyWarnings < propertyWarningLimit
                      THEN Append(@, propertyWarning(fr, "large")) ELSE @],
             l |-> [st.l EXCEPT !.propertyWarnings = @ + 1] ]
      ELSE [m |-> m2, l |-> st.l]

\* the report fields processRows fills in after the loop
finalise(m, l) ==
  LET m1 == IF l.resInitialised
            THEN [m EXCEPT !.MinResolutionSeen = l.minResSeen,
                           !.MaxResolutionSeen = l.maxResSeen,
                           !.Warnings = IF l.maxResSeen - l.minResSeen >= 5
                                        THEN Append(@, [kind |-> "mixed_resolutions",
                                                        count |-> 0, more |-> 0])
                                        ELSE @]
            ELSE m
      m2 == IF Len(l.invalidSamples) > 0
            THEN [m1 EXCEPT !.Warnings =
                    Append(@, [kind |-> "invalid_cells",
                               count |-> Len(l.invalidSamples),
                               more |-> IF m.DroppedInvalidH3 > Len(l.invalidSamples)
                                        THEN m.DroppedInvalidH3 - Len(l.invalidSamples)
                                        ELSE 0])]
            ELSE m1
  IN  IF l.propertyWarnings > propertyWarningLimit
      THEN [m2 EXCEPT !.Warnings = Append(@, [kind |-> "warnings_truncated",
                                              count |-> l.propertyWarnings, more |-> 0])]
      ELSE m2

\* a release policy that takes whichever result has arrived, lowest row first
nextReleaseArrival(l) ==
  IF DOMAIN l.pending = {} THEN l.expected
  ELSE CHOOSE n \in DOMAIN l.pending : \A k \in DOMAIN l.pending : n <= k

\* the row number the next release takes from pending
nextRelease(l) == l.expected

\* a release that steps over the row after the released one
releasedSkipping(l, n) ==
  [l EXCEPT !.pending = [k \in DOMAIN @ \ {n, n + 1} |-> @[k]], !.expected = @ + 2]

\* delete(pending, expected); expected++
released(l, n) ==
  [l EXCEPT !.pending = [k \in DOMAIN @ \ {n} |-> @[k]], !.expected = @ + 1]

\* a writer that appends the line twice
writtenTwice(s, fr) == Append(Append(s, fr.Feature), fr.Feature)

\* writer.WriteFeature(fr.Feature): one line appended to the output
written(s, fr) == Append(s, fr.Feature)

\* for res := range results: one receive, the fatal-error return or pending[...] = res
Receive ==
  /\ ~crashed
  /\ main.pc = "recv"
  /\ results # << >>
  /\ results' = Tail(results)
  /\ IF Head(results).Err # NoErr
     THEN /\ cancelled' = TRUE
          /\ main' = [main EXCEPT !.pc = "wait", !.err = Head(results).Err]
          /\ loc' = loc
     ELSE /\ cancelled' = cancelled
          /\ main' = [main EXCEPT !.pc = "drain"]
          /\ loc' = [loc EXCEPT !.pending =
                       [n \in DOMAIN @ \cup {Head(results).RowNumber} |->
                          IF n = Head(results).RowNumber THEN Head(results) ELSE @[n]]]
  /\ UNCHANGED << call, config, effects, source, opts, reader, prod, workers, resultsClosed, metrics, sink,
                  parentDone, run >>

\* one iteration of the inner loop: release pending[expected], or leave the loop
Drain(writeOk) ==
  /\ ~crashed
  /\ main.pc = "drain"
  /\ IF nextRelease(loc) \notin DOMAIN loc.pending
     THEN /\ main' = [main EXCEPT !.pc = "recv"]
          /\ UNCHANGED << loc, metrics, sink, cancelled >>
     ELSE LET n   == nextRelease(loc)
              fr  == loc.pending[n]
              l0  == released(loc, n)
              st1 == countRow([m |-> metrics, l |-> l0], fr)
          IN  IF fr.Dropped
              THEN /\ metrics' = countDrop(st1, fr).m
                   /\ loc' = countDrop(st1, fr).l
                   /\ UNCHANGED << main, sink, cancelled >>
              ELSE IF ~writeOk
              THEN /\ metrics' = st1.m
                   /\ loc' = st1.l
                   /\ cancelled' = TRUE
                   /\ main' = [main EXCEPT !.pc = "wait",
                                           !.err = NewErr("write_ndjson_feature", << >>)]
                   /\ sink' = sink
              ELSE /\ sink' = written(sink, fr)
                   /\ metrics' = countEmit(st1, fr).m
                   /\ loc' = countEmit(st1, fr).l
                   /\ UNCHANGED << main, cancelled >>
  /\ UNCHANGED << call, config, effects, source, opts, reader, prod, workers, results, resultsClosed,
                  parentDone, run >>

\* results is drained and closed: cancel, wg.Wait, final report fields, return
LoopEnd ==
  /\ ~crashed
  /\ main.pc = "recv"
  /\ results = << >>
  /\ resultsClosed
  /\ cancelled' = TRUE
  /\ metrics' = finalise(metrics, loc)
  /\ main' = IF DOMAIN loc.pending # {}
             THEN [pc |-> "returned", err |-> NewErr("incomplete_processing", << >>),
                   ret |-> "error"]
             ELSE [pc |-> "returned", err |-> NoErr, ret |-> "nil"]
  /\ UNCHANGED << call, config, effects, source, opts, reader, prod, workers, results, resultsClosed, loc,
                  sink, parentDone, run >>

\* cancel(); wg.Wait(); return err
ErrorReturn ==
  /\ ~crashed
  /\ main.pc = "wait"
  /\ allWorkersDone
  /\ main' = [main EXCEPT !.pc = "returned", !.ret = "error"]
  /\ UNCHANGED << call, config, effects, source, opts, reader, prod, workers, results, resultsClosed, loc,
                  metrics, sink, cancelled, parentDone, run >>

(***************************************************************************)
(* build.Run after processRows, and the caller's context.                  *)
(***************************************************************************)
\* Run returns: the deferred reader.Close()
closeReader(r) == [r EXCEPT !.closed = TRUE, !.buffer = << >>]

\* processRows has returned: Run returns its error, or closes the NDJSON writer
\* and resolves the two command-line tools.  Writer.Close gives up the file
\* whether or not closing it fails, and a return of Run runs the deferred
\* writer.Close(): the writer is closed on every path.
AfterProcessRows(closeOk, toolsFound) ==
  /\ ~crashed
  /\ run = "processRows"
  /\ main.pc = "returned"
  /\ effects' = [effects EXCEPT !.writerClosed = TRUE]
  /\ IF main.ret = "nil" /\ closeOk /\ toolsFound
     THEN /\ run' = "tippecanoe"
          /\ reader' = reader
     ELSE /\ run' = "failed"
          /\ reader' = closeReader(reader)
  /\ UNCHANGED << call, config, source, opts, prod, workers, results, resultsClosed, main, loc,
                  metrics, sink, cancelled, parentDone >>

\* the Report.Config that Run writes before it runs the tiler
derivedConfig ==
  [MinZoom |-> deriveZooms(opts, metrics).minZoom,
   MaxZoom |-> deriveZooms(opts, metrics).maxZoom]

\* deriveZooms, rep.Config.MinZoom/MaxZoom, and the start of
\* tippecanoeRunner.Run(ctx, ...): Run waits for the command
TileBuilderStart ==
  /\ ~crashed
  /\ run = "tippecanoe"
  /\ config # derivedConfig
  /\ config' = derivedConfig
  /\ UNCHANGED << call, effects, source, opts, reader, prod, workers, results, resultsClosed,
                  main, loc, metrics, sink, cancelled, parentDone, run >>

\* the return of tippecanoeRunner.Run(ctx, ...): the command fails once ctx
\* is done
TileBuilder(ok) ==
  /\ ~crashed
  /\ run = "tippecanoe"
  /\ config = derivedConfig
  /\ config' = config
  /\ IF ok /\ ~parentDone
     THEN /\ run' = "convert"
          /\ reader' = reader
          /\ effects' = [effects EXCEPT !.tiler = "ok"]
     ELSE /\ run' = "failed"
          /\ reader' = closeReader(reader)
          /\ effects' = [effects EXCEPT !.tiler = "failed"]
  /\ UNCHANGED << call, source, opts, prod, workers, results, resultsClosed, main, loc,
                  metrics, sink, cancelled, parentDone >>

\* a conversion whose failure does not stop Run
ArchiveConvertLenient(ok) ==
  /\ ~crashed
  /\ run = "convert"
  /\ run' = "finish"
  /\ reader' = reader
  /\ effects' = [effects EXCEPT !.convert = IF ok /\ ~parentDone THEN "ok" ELSE "failed"]
  /\ UNCHANGED << call, config, source, opts, prod, workers, results, resultsClosed, main, loc,
                  metrics, sink, cancelled, parentDone >>

\* pmtilesConverter.Convert(ctx, ...)
ArchiveConvert(ok) ==
  /\ ~crashed
  /\ run = "convert"
  /\ IF ok /\ ~parentDone
     THEN /\ run' = "finish"
          /\ reader' = reader
          /\ effects' = [effects EXCEPT !.convert = "ok"]
     ELSE /\ run' = "failed"
          /\ reader' = closeReader(reader)
          /\ effects' = [effects EXCEPT !.convert = "failed"]
  /\ UNCHANGED << call, config, source, opts, prod, workers, results, resultsClosed, main, loc,
                  metrics, sink, cancelled, parentDone >>

\* the outcomes of pmtilesConverter.Info: the command exits non-zero, or its
\* output is no JSON object, or it returns the metadata
InfoOutcomes == {"ok", "exit", "malformed"}

\* the outcome of Info under the context: a command does not start once the
\* context is done
infoUnder(info) == IF parentDone THEN "exit" ELSE info

\* rep.AddWarning
AddWarning(m, kind) == [m EXCEPT !.Warnings = Append(@, [kind |-> kind, count |-> 0, more |-> 0])]

\* pmtilesConverter.Info (on failure a warning when the command printed
\* anything, also when it was stopped by the caller's cancellation after it
\* had printed; nothing otherwise), rep.WriteHTML, return
Finish(info, printed, htmlOk) ==
  /\ ~crashed
  /\ run = "finish"
  /\ metrics' = IF infoUnder(info) # "ok" /\ printed
                THEN AddWarning(metrics, "pmtiles_info") ELSE metrics
  /\ effects' = [effects EXCEPT !.info = infoUnder(info),
                                !.report = IF htmlOk THEN "written" ELSE "failed"]
  /\ run' = IF htmlOk THEN "done" ELSE "failed"
  /\ reader' = closeReader(reader)
  /\ UNCHANGED << call, config, source, opts, prod, workers, results, resultsClosed, main, loc,
                  sink, cancelled, parentDone >>

\* the caller cancels the context it passed to Run, at any time: while Run
\* waits for a command or writes the report, or once it has returned
ParentCancel ==
  /\ ~crashed
  /\ ~parentDone
  /\ parentDone' = TRUE
  /\ UNCHANGED << call, config, effects, source, opts, reader, prod, workers, results, resultsClosed, main,
                  loc, metrics, sink, cancelled, run >>

Next ==
  \/ \E ioFail \in BOOLEAN : ProducerNext(ioFail)
  \/ ProducerCtxDone
  \/ ProducerSendErr
  \/ \E w \in BagToSet(workers) : WorkerRecv(w)
  \/ \E w \in BagToSet(workers) : WorkerJobsClosed(w)
  \/ \E w \in BagToSet(workers) : WorkerCtxDone(w)
  \/ \E w \in BagToSet(workers) : WorkerSend(w)
  \/ CloseResults
  \/ Receive
  \/ \E writeOk \in BOOLEAN : Drain(writeOk)
  \/ LoopEnd
  \/ ErrorReturn
  \/ \E closeOk, toolsFound \in BOOLEAN : AfterProcessRows(closeOk, toolsFound)
  \/ TileBuilderStart
  \/ \E ok \in BOOLEAN : TileBuilder(ok)
  \/ \E ok \in BOOLEAN : ArchiveConvert(ok)
  \/ \E info \in InfoOutcomes, printed, htmlOk \in BOOLEAN : Finish(info, printed, htmlOk)
  \/ ParentCancel

(***************************************************************************)
(* Inputs.                                                                 *)
(***************************************************************************)
K_score == <<"s","c","o","r","e">>
K_name == <<"n","a","m","e">>
S_notacell == <<"z","z","z","z","n","o","t","a","c","e","l","l">>
S_name8 == <<"a","b","c","d","e","f","g","h">>

\* the sequences over S of length 0..n
RECURSIVE SeqsUpTo(_, _)
SeqsUpTo(S, n) ==
  IF n = 0 THEN {<< >>}
  ELSE LET shorter == SeqsUpTo(S, n - 1)
       IN  shorter \cup {Append(q, x) : q \in {t \in shorter : Len(t) = n - 1}, x \in S}

NoQuantizer == [FloatStep |-> NoStep, IntStep |-> NoStep, FieldSteps |-> [k \in {} |-> NoStep]]

\* a row whose properties exceed the cap of PipelineOpts: with the two kept
\* columns, each marshalled as {}, the object has 48 bytes
OverCapRow ==
  [k \in {K_h3, K_score, K_name} |->
     IF k = K_h3 THEN StrVal(<<"2","9">>)
     ELSE IF k = K_score THEN IntVal(12) ELSE StrVal(S_name8)]

\* rows of the pipeline specification: two that are emitted, unparsable cell,
\* filtered resolution, properties over the cap
PipelineRows ==
  { [k \in {K_h3, K_score} |-> IF k = K_h3 THEN StrVal(<<"1","8">>) ELSE IntVal(12)],
    [k \in {K_h3} |-> StrVal(<<"2","9">>)],
    [k \in {K_h3, K_score} |-> IF k = K_h3 THEN StrVal(S_notacell) ELSE IntVal(12)],
    [k \in {K_h3} |-> StrVal(<<"1","3">>)],
    OverCapRow }

PipelineOpts(threads) ==
  [ MinResolution |-> 5, MaxResolution |-> -1,
    PropertyInclude |-> << K_score, K_name >>, PropertyDrop |-> << >>,
    Quantize |-> [NoQuantizer EXCEPT !.IntStep = Step(5, 1)],
    Threads |-> threads, PropertyByteCap |-> 40, MinZoom |-> -1, MaxZoom |-> -1 ]

Init ==
  /\ source \in SeqsUpTo(PipelineRows, MaxRows)
  /\ opts \in {PipelineOpts(t) : t \in 1..MaxThreads}
  /\ InitState

Spec == Init /\ [][Next]_vars

\* the goroutines of processRows under the Go scheduler: the producer, the
\* workers and the reassembly loop with the closer each take a step when they
\* can, and a select with a ready case takes one of them.  Weak fairness of
\* reader.Next and of the rendezvous on jobs is written out, with the
\* conditions under which the steps can be taken.
Scheduling ==
  /\ \/ <>[](prod.pc # "next")
     \/ []<><<\E ioFail \in BOOLEAN : ProducerNext(ioFail)>>_vars
  /\ WF_vars(ProducerCtxDone \/ ProducerSendErr)
  /\ \/ <>[]~(prod.pc = "send" /\ \E w \in BagToSet(workers) : w.pc = "recv")
     \/ []<><<\E w \in BagToSet(workers) : WorkerRecv(w)>>_vars
  /\ WF_vars(\E w \in BagToSet(workers) :
               WorkerJobsClosed(w) \/ WorkerCtxDone(w) \/ WorkerSend(w))
  /\ WF_vars(\/ CloseResults
             \/ Receive
             \/ \E writeOk \in BOOLEAN : Drain(writeOk)
             \/ LoopEnd
             \/ ErrorReturn)

SpecFair == Init /\ [][Next]_vars /\ Scheduling

(***************************************************************************)
(* Inputs of the single-row specification: one row of every kind of cell   *)
(* value and property payload, under every combination of resolution       *)
(* bounds, property cap, allow-list, drop pattern and integer step.        *)
(***************************************************************************)
\* a text of n bytes
LongText(n) == [i \in 1..n |-> "a"]

\* the cell-column values: valid (resolution 8, 3), unparsable, negative
\* integer and negative float (-24.0) whose magnitude is a cell, integer,
\* parsable but no valid cell, null, a float below one (0.5), zero, blank
CellValues ==
  { StrVal(<<"1","8">>), StrVal(<<"1","3">>), StrVal(S_notacell), IntVal(-24),
    FloatVal(0 - 24 * FloatScale), IntVal(24), StrVal(<<"f","8">>), NullVal,
    FloatVal(2), StrVal(<<"0">>), StrVal(<<" ">>) }

\* the property payloads of ordinary size
SmallPayloads ==
  { EmptyMap,
    [k \in {K_score} |-> IntVal(12)],
    [k \in {K_score, K_name} |-> IF k = K_score THEN IntVal(12) ELSE StrVal(S_name8)] }

\* a column name as long as the default cap
K_long == LongText(DefaultPropertyCap)

\* a payload whose marshalled object is larger than the default cap: the
\* size of a kept column is that of its name, the value is marshalled as {}
LargePayloads == { [k \in {K_long} |-> StrVal(S_name8)] }

\* a row: an h3 column (none for the value "absent") and the payload columns
rowOf(cell, payload) ==
  [k \in DOMAIN payload \cup {K_h3} |-> IF k = K_h3 THEN cell ELSE payload[k]]

RowOptions ==
  { [ MinResolution |-> b[1], MaxResolution |-> b[2],
      PropertyInclude |-> inc, PropertyDrop |-> drop,
      Quantize |-> [NoQuantizer EXCEPT !.IntStep = step],
      Threads |-> 1, PropertyByteCap |-> cap, MinZoom |-> -1, MaxZoom |-> -1 ] :
      b \in {<< -1, -1 >>, << 5, -1 >>, << -1, 5 >>},
      inc \in {<< >>, << K_score >>, << K_score, K_name >>},
      drop \in {<< >>, << <<"s","*">> >>},
      step \in {NoStep, Step(5, 1)},
      cap \in {0, 36, 37} }

\* options for the large payload: the cap left at 0 or set
LargeOptions ==
  { [ MinResolution |-> -1, MaxResolution |-> -1,
      PropertyInclude |-> << K_long >>, PropertyDrop |-> << >>,
      Quantize |-> NoQuantizer, Threads |-> 1, PropertyByteCap |-> cap,
      MinZoom |-> -1, MaxZoom |-> -1 ] :
      cap \in {0, 37} }

InitRow ==
  /\ \/ /\ source \in {<< rowOf(c, p) >> : c \in CellValues, p \in SmallPayloads}
                  \cup {<< p >> : p \in SmallPayloads \ {EmptyMap}}
        /\ opts \in RowOptions
     \/ /\ source \in {<< rowOf(c, p) >> : c \in {StrVal(<<"1","8">>)}, p \in LargePayloads}
        /\ opts \in LargeOptions
  /\ InitState

SpecRow == InitRow /\ [][Next]_vars

(***************************************************************************)
(* The sequential reference: what one pass over the source, row by row,    *)
(* produces.                                                               *)
(***************************************************************************)
\* the first k rows of the source as the reader decodes them
RECURSIVE decodedRows(_)
decodedRows(k) ==
  IF k <= 0 THEN << >> ELSE Append(decodedRows(k - 1), DecodeRow(source[k], k))

\* the results of the first k rows of the source
RECURSIVE sequentialResults(_)
sequentialResults(k) ==
  IF k <= 0 THEN << >>
  ELSE Append(sequentialResults(k - 1), buildFeature(DecodeRow(source[k], k), cfg))

\* the features of the first k results of rs that are not dropped, in row order
RECURSIVE sequentialSink(_, _)
sequentialSink(rs, k) ==
  IF k <= 0 THEN << >>
  ELSE IF rs[k].Dropped THEN sequentialSink(rs, k - 1)
  ELSE Append(sequentialSink(rs, k - 1), rs[k].Feature)

\* the rows released so far
releasedRows == 1..(loc.expected - 1)

\* the release in progress stopped at a failed write
writeFailed == main.err.kind = "write_ndjson_feature"

\* the rows Reader.Next has handed to the producer
rowsYielded == reader.read - (Len(reader.buffer) - reader.cursor)

(***************************************************************************)
(* Ordering and accounting of processRows.                                 *)
(***************************************************************************)
\* C1: for every worker count and every interleaving the sink holds, after k
\* rows have been released, exactly what a sequential pass over the first k
\* rows writes (a failed write leaves out the row it failed on); a run that
\* returns nil without the caller cancelling has released every row.
C1Determinism ==
  /\ \A rs \in {sequentialResults(loc.expected - 1)} :
        sink = sequentialSink(rs, IF writeFailed THEN Len(rs) - 1 ELSE Len(rs))
  /\ (main.ret = "nil" /\ ~parentDone) => loc.expected = Len(source) + 1

\* two workers, both rows written, processRows returned nil
C1Witness ==
  /\ Threads = 2
  /\ main.ret = "nil"
  /\ Len(source) = 2
  /\ Len(sink) = 2
  /\ sink[1] # sink[2]

\* C2: every step that counts a row releases the row numbered expected, which
\* is the next after the rows counted so far, and advances expected by one; the
\* sink grows only in such a step, by the feature of that row.
C2HeadOfLine ==
  [][ /\ metrics'.TotalRows # metrics.TotalRows =>
           /\ loc.expected \in DOMAIN loc.pending
           /\ loc.pending[loc.expected].RowNumber = metrics.TotalRows + 1
           /\ metrics'.TotalRows = metrics.TotalRows + 1
           /\ loc'.expected = loc.expected + 1
           /\ DOMAIN loc'.pending = DOMAIN loc.pending \ {loc.expected}
           /\ sink' \in {sink, Append(sink, loc.pending[loc.expected].Feature)}
      /\ sink' # sink => metrics'.TotalRows # metrics.TotalRows
      /\ loc'.expected # loc.expected => metrics'.TotalRows # metrics.TotalRows ]_vars

\* row 2 arrived first and is held back while row 1 is awaited
C2Witness ==
  /\ loc.expected = 1
  /\ 2 \in DOMAIN loc.pending
  /\ main.pc = "recv"
  /\ metrics.TotalRows = 0

\* the row numbers among the first k results of rs that are not dropped, ascending
RECURSIVE emittedRows(_, _)
emittedRows(rs, k) ==
  IF k <= 0 THEN << >>
  ELSE IF rs[k].Dropped THEN emittedRows(rs, k - 1)
  ELSE Append(emittedRows(rs, k - 1), k)

\* line j of the sink is the feature of the j-th row of es, and there is no other line
linesAre(rs, es) ==
  /\ Len(sink) = Len(es)
  /\ \A j \in 1..Len(es) : sink[j] = rs[es[j]].Feature

\* C3: when Run has succeeded, line j of the sink is the feature of the j-th
\* row that is not dropped: each such row once, in ascending row number, and
\* nothing else.
C3ExactOutput ==
  run = "done" =>
    \A rs \in {sequentialResults(Len(source))} :
       \A es \in {emittedRows(rs, Len(rs))} : linesAre(rs, es)

\* a successful Run over a dropped row and an emitted row
C3Witness ==
  /\ run = "done"
  /\ Len(source) = 2
  /\ Len(sink) = 1
  /\ source[1][K_h3] = StrVal(S_notacell)
  /\ metrics.DroppedInvalidH3 = 1
  /\ metrics.EmittedFeatures = 1

\* C4: after every completed release, and at return, TotalRows is the sum of
\* EmittedFeatures and the four drop counters; TotalRows is the number of rows
\* released and EmittedFeatures the number of lines written, so that
\* TotalRows - EmittedFeatures is the number of released rows that were dropped.
C4DropAccounting ==
  ~writeFailed =>
    /\ metrics.TotalRows = metrics.EmittedFeatures + metrics.DroppedInvalidH3
                           + metrics.DroppedResolution + metrics.DroppedPropertyCap
                           + metrics.DroppedOther
    /\ metrics.TotalRows = loc.expected - 1
    /\ metrics.EmittedFeatures = Len(sink)

\* processRows returned nil after an invalid cell and an oversized row
C4Witness ==
  /\ main.ret = "nil"
  /\ metrics.TotalRows = 2
  /\ metrics.DroppedInvalidH3 = 1
  /\ metrics.DroppedPropertyCap = 1

\* C5: when processRows has returned nil, TotalRows is the number of rows
\* Reader.Next yielded.
C5ExactlyOnce ==
  (main.ret = "nil" /\ ~reader.closed) => metrics.TotalRows = rowsYielded

(***************************************************************************)
(* The per-row outcomes.                                                   *)
(***************************************************************************)
\* the rows of ds whose cell does not decode to a valid cell
badCells(ds) == {i \in 1..Len(ds) : ds[i].Err # NoErr}

\* the rows of ds with a valid cell whose resolution is outside the configured bounds
filteredOut(ds) ==
  {i \in 1..Len(ds) \ badCells(ds) :
     \/ opts.MinResolution >= 0 /\ ds[i].Resolution < opts.MinResolution
     \/ opts.MaxResolution >= 0 /\ ds[i].Resolution > opts.MaxResolution}

\* the number of rows the resolution histogram has counted
histogramTotal == SumOver(DOMAIN metrics.ResolutionHistogram, metrics.ResolutionHistogram)

\* C6: a released row with a valid cell and a resolution outside the bounds is
\* counted in DroppedResolution and is not counted in the resolution histogram.
C6ResolutionDrop ==
  \A ds \in {decodedRows(loc.expected - 1)} :
     /\ metrics.DroppedResolution = Cardinality(filteredOut(ds))
     /\ histogramTotal <= Len(ds) - Cardinality(badCells(ds)) - Cardinality(filteredOut(ds))

\* the released row i has a diagnostic sample that carries the text of its cell
sampled(i) ==
  \E j \in 1..Len(loc.invalidSamples) :
     /\ loc.invalidSamples[j].row = i
     /\ loc.invalidSamples[j].detail.kind # "nil"
     /\ source[i][K_h3].t = "string" =>
          /\ loc.invalidSamples[j].cell = source[i][K_h3].s
          /\ loc.invalidSamples[j].detail.text = source[i][K_h3].s

\* C7: a released row whose cell does not decode is counted in
\* DroppedInvalidH3, has a diagnostic sample that carries the offending text, is
\* neither in the histogram nor emitted, and is no reason for processRows to
\* cancel or to return an error.
C7InvalidCell ==
  /\ \A bad \in {badCells(decodedRows(loc.expected - 1))} :
        /\ \A i \in bad : sampled(i)
        /\ metrics.DroppedInvalidH3 = Cardinality(bad)
        /\ histogramTotal <= loc.expected - 1 - Cardinality(bad)
        /\ metrics.EmittedFeatures <= loc.expected - 1 - Cardinality(bad)
  /\ main.err.kind \in {"nil", "read_parquet_rows", "write_ndjson_feature",
                         "incomplete_processing"}
  /\ cancelled => main.pc \in {"wait", "returned"}

\* the row "zzzznotacell" was dropped and the row after it was emitted
C7Witness ==
  /\ Len(source) = 2
  /\ source[1][K_h3] = StrVal(S_notacell)
  /\ metrics.DroppedInvalidH3 = 1
  /\ metrics.EmittedFeatures = 1
  /\ Len(loc.invalidSamples) = 1
  /\ loc.invalidSamples[1].detail.text = S_notacell
  /\ main.ret = "nil"

\* the bytes of the property object of the decoded row: filtered, with the
\* system fields, quantized, serialised
serializedBytes(row) ==
  jsonLen(QuantizerApply(cfg.Quantizer,
            withSystemFields(FilterApply(cfg.Filter, row.Properties), row)).props)

\* the sizes of the rows of ds that get as far as the property cap
RECURSIVE sizesAtCap(_, _)
sizesAtCap(ds, k) ==
  IF k <= 0 THEN << >>
  ELSE IF k \in badCells(ds) \cup filteredOut(ds) THEN sizesAtCap(ds, k - 1)
  ELSE Append(sizesAtCap(ds, k - 1), serializedBytes(ds[k]))

\* how many of the sizes are over the cap
overCap(sizes) == Cardinality({j \in 1..Len(sizes) : sizes[j] > cfg.PropertyCap})

\* C8: the rows counted in DroppedPropertyCap are the released rows whose
\* serialised properties are longer than the cap, none of them is written, and
\* the rows of at most the cap are emitted.
C8PropertyCap ==
  \A ds \in {decodedRows(loc.expected - 1)} :
     \A sizes \in {sizesAtCap(ds, Len(ds))} :
        /\ metrics.DroppedPropertyCap = overCap(sizes)
        /\ Len(metrics.PropertyWarnings) >= overCap(sizes)
        /\ ~writeFailed => /\ metrics.EmittedFeatures = Len(sizes) - overCap(sizes)
                           /\ Len(sink) = Len(sizes) - overCap(sizes)

\* a row one byte over the cap was dropped
C8Witness ==
  /\ metrics.DroppedPropertyCap = 1
  /\ metrics.PropertyWarnings[1].PropertyBytes = opts.PropertyByteCap + 1
  /\ serializedBytes(DecodeRow(source[1], 1)) = opts.PropertyByteCap + 1
  /\ sink = << >>

\* step a comes before step b in the steps s
Before(s, a, b) == \E i \in 1..Len(s) : \E j \in (i + 1)..Len(s) : s[i] = a /\ s[j] = b

\* C9: a result a worker holds has been through the polygon construction only
\* if it is not dropped, and then the cell, resolution and cap checks came
\* before it; the cap check comes after the filter and the quantizer.
C9GeometryAfterChecks ==
  \A w \in BagToSet(workers) : w.pc = "send" =>
     /\ w.fr.Dropped => /\ \A k \in 1..Len(w.stages) : w.stages[k] # "polygon"
                        /\ w.fr.Feature = NoFeature
     /\ ~w.fr.Dropped => /\ Before(w.stages, "cell", "polygon")
                         /\ Before(w.stages, "resolution", "polygon")
                         /\ Before(w.stages, "cap", "polygon")
     /\ w.fr.DropReason = "property_cap" => /\ Before(w.stages, "filter", "cap")
                                            /\ Before(w.stages, "quantize", "cap")

\* a worker holds a result dropped at the property cap
C9Witness ==
  \E w \in BagToSet(workers) :
     /\ w.pc = "send"
     /\ w.fr.DropReason = "property_cap"
     /\ w.stages[Len(w.stages)] = "cap"

\* C10: with the property byte cap configured as 0 no row is dropped for its
\* property size.
C10CapDisabled == opts.PropertyByteCap = 0 => metrics.DroppedPropertyCap = 0

(***************************************************************************)
(* Functions of the build called on their own: the arguments are drawn     *)
(* by the initial state and the call stores what the function returns.     *)
(***************************************************************************)
pipelineVars == << source, opts, reader, prod, workers, results, resultsClosed, main,
                   loc, metrics, sink, cancelled, parentDone, run, config, effects >>

K_sum == <<"s","u","m">>

\* the calls of Filter.Apply: include lists (none, keys present and absent,
\* repeats, blanks, padding), drop lists (none, globs, a literal, everything),
\* both values of keepAllByDefault, property maps of zero to three entries
FilterCalls ==
  LET includes == { << >>, << K_score >>, << K_score, K_name >>,
                    << K_name, K_sum, K_name >>, << <<" ">> >>,
                    << <<" ","s","u","m"," ">>, K_score >>, << <<"a","g","e">> >> }
      drops == { << >>, << <<"s","*">> >>, << K_name >>, << <<"*">> >>,
                 << <<"s","?","m">>, <<"n","*">> >>,
                 << <<"s","*">>, <<" ">>, <<"s","*">> >> }
      maps == { EmptyMap,
                [k \in {K_score} |-> IntVal(12)],
                [k \in {K_score, K_name} |->
                   IF k = K_score THEN IntVal(12) ELSE StrVal(S_name8)],
                [k \in {K_score, K_sum, K_name} |->
                   IF k = K_name THEN StrVal(S_name8)
                   ELSE IF k = K_sum THEN NullVal ELSE IntVal(12)] }
  IN  { [ fn |-> "Filter.Apply",
          args |-> [include |-> inc, drop |-> drop, keepAllByDefault |-> keep,
                    props |-> props],
          out |-> EmptyMap, returned |-> FALSE ] :
          inc \in includes, drop \in drops, keep \in BOOLEAN, props \in maps }

\* NewFilter(include, drop, keepAllByDefault).Apply(props)
CallFilterApply ==
  /\ call.fn = "Filter.Apply"
  /\ ~call.returned
  /\ call' = [call EXCEPT
        !.out = FilterApply(NewFilter(call.args.include, call.args.drop,
                                      call.args.keepAllByDefault), call.args.props),
        !.returned = TRUE]
  /\ UNCHANGED pipelineVars

\* largest magnitude of the small numbers handed to Quantizer.Apply
MaxSmall == 8

\* the calls of Quantizer.Apply.  Quantizers: float and integer defaults off,
\* fractional or whole, with no override, an override of 0, a whole and a
\* fractional override on the key score.  Values under score: the small
\* integers and floats, the integers around 2^MantissaBits, floats that
\* large, a string, a boolean, null; and one map of two keys.
QuantizerCalls ==
  LET quantizers ==
        { [FloatStep |-> f, IntStep |-> i, FieldSteps |-> o] :
            f \in {NoStep, Step(1, 2), Step(3, 2)},
            i \in {NoStep, Step(3, 1), Step(3, 2)},
            o \in { [k \in {} |-> NoStep], [k \in {K_score} |-> NoStep],
                    [k \in {K_score} |-> Step(5, 1)], [k \in {K_score} |-> Step(1, 4)] } }
      large == Pow2(MantissaBits)
      values ==
        {IntVal(n) : n \in (0 - MaxSmall)..MaxSmall}
          \cup {IntVal(n) : n \in (large - MaxSmall)..(large + 2 * MaxSmall)}
          \cup {FloatVal(n) : n \in (0 - MaxSmall)..MaxSmall}
          \cup {FloatVal(FloatScale * n) : n \in (large \div 2 - 3)..(large \div 2)}
          \cup {StrVal(S_name8), StrVal(<<"1","2">>), BoolVal(TRUE), BoolVal(FALSE), NullVal}
      maps == {[k \in {K_score} |-> v] : v \in values}
                \cup { [k \in {K_score, K_name} |->
                          IF k = K_score THEN IntVal(7) ELSE FloatVal(5)],
                       EmptyMap }
      \* differences whose sum is no float: an integer just under
      \* 2^MantissaBits brought to 0 by a step above it, and quarters brought to 0
      coarse == [FloatStep |-> Step(1, 1), IntStep |-> Step(4 * large, 1),
                 FieldSteps |-> [k \in {} |-> NoStep]]
      uneven == { [k \in {K_score, K_name} |->
                     IF k = K_score THEN IntVal(large - 1) ELSE FloatVal(1)],
                  [k \in {K_score, K_name, K_sum} |->
                     IF k = K_score THEN IntVal(large - 1) ELSE FloatVal(1)] }
  IN  { [ fn |-> "Quantizer.Apply", args |-> [q |-> q, props |-> props],
          out |-> [props |-> EmptyMap, result |-> NoQuant], returned |-> FALSE ] :
          q \in quantizers, props \in maps }
      \cup
      { [ fn |-> "Quantizer.Apply", args |-> [q |-> coarse, props |-> props],
          out |-> [props |-> EmptyMap, result |-> NoQuant], returned |-> FALSE ] :
          props \in uneven }

\* q.Apply(props)
CallQuantizerApply ==
  /\ call.fn = "Quantizer.Apply"
  /\ ~call.returned
  /\ \E r \in {QuantizerApply(call.args.q, call.args.props)} :
       \E total \in r.totals :
          call' = [call EXCEPT
                     !.out = [props |-> r.props,
                              result |-> [r.result EXCEPT !.TotalAbsError = total]],
                     !.returned = TRUE]
  /\ UNCHANGED pipelineVars

\* largest zoom level a caller asks for
MaxZoomArg == 17

\* the calls of deriveZooms: each zoom option absent (-1) or given, every
\* largest resolution a run can have seen
ZoomCalls ==
  { [ fn |-> "deriveZooms",
      args |-> [MinZoom |-> lo, MaxZoom |-> hi, MaxResolutionSeen |-> res],
      out |-> [minZoom |-> 0, maxZoom |-> 0], returned |-> FALSE ] :
      lo \in -1..MaxZoomArg, hi \in -1..MaxZoomArg, res \in 0..15 }

\* deriveZooms(opts, report)
CallDeriveZooms ==
  /\ call.fn = "deriveZooms"
  /\ ~call.returned
  /\ call' = [call EXCEPT !.out = deriveZooms(call.args, call.args), !.returned = TRUE]
  /\ UNCHANGED pipelineVars

\* longest text handed to stringToCell, the prefix not counted
MaxText == 4

\* the calls of stringToCell: no prefix, 0x or 0X, then up to MaxText
\* characters that are decimal digits, a hexadecimal digit or no digit
StringCalls ==
  { [ fn |-> "stringToCell", args |-> [text |-> prefix \o body],
      out |-> [cell |-> 0, err |-> NoErr], returned |-> FALSE ] :
      prefix \in {<< >>, <<"0","x">>, <<"0","X">>},
      body \in SeqsUpTo({"0", "4", "9", "f", "g"}, MaxText) }

\* stringToCell(s)
CallStringToCell ==
  /\ call.fn = "stringToCell"
  /\ ~call.returned
  /\ call' = [call EXCEPT !.out = stringToCell(call.args.text), !.returned = TRUE]
  /\ UNCHANGED pipelineVars

\* the calls of buildFeature: rows with and without properties, invalid and
\* under the minimum resolution; no filter, an include list, keep-all; the
\* quantizer off and on; the cap at its default and below the payload
BuildCalls ==
  LET rows == { DecodeRow(r, 1) :
                  r \in { [k \in {K_h3} |-> StrVal(<<"2","9">>)],
                          [k \in {K_h3, K_score} |->
                             IF k = K_h3 THEN StrVal(<<"2","9">>) ELSE IntVal(12)],
                          [k \in {K_h3, K_score, K_name} |->
                             IF k = K_h3 THEN StrVal(<<"2","9">>)
                             ELSE IF k = K_score THEN IntVal(12) ELSE StrVal(S_name8)],
                          [k \in {K_h3, K_score} |->
                             IF k = K_h3 THEN StrVal(<<"1","3">>) ELSE IntVal(12)],
                          [k \in {K_score} |-> IntVal(12)],
                          \* a column whose name json.Marshal escapes
                          [k \in {K_h3, <<"a","<","b">>} |->
                             IF k = K_h3 THEN StrVal(<<"2","9">>) ELSE IntVal(12)] } }
      filters == { NilFilter,
                   NewFilter(<< K_score >>, << >>, FALSE),
                   NewFilter(<< >>, << >>, FALSE),
                   NewFilter(<< >>, << K_name >>, TRUE) }
      quantizers == { NoQuantizer, [NoQuantizer EXCEPT !.IntStep = Step(5, 1)] }
  IN  { [ fn |-> "buildFeature",
          args |-> [row |-> row,
                    cfg |-> [RunConfig(PipelineOpts(1)) EXCEPT
                               !.Filter = f, !.Quantizer = q, !.PropertyCap = cap]],
          out |-> [res |-> newResult(NoRow), row |-> NoRow], returned |-> FALSE ] :
          row \in rows, f \in filters, q \in quantizers, cap \in {DefaultPropertyCap, 20} }

\* buildFeature(row, cfg): its result, and the row as the caller finds it
\* after the call
CallBuildFeature ==
  /\ call.fn = "buildFeature"
  /\ ~call.returned
  /\ \E b \in {buildFeatureRun(call.args.row, call.args.cfg)} :
       \E total \in b.totals :
          call' = [call EXCEPT
                     !.out = [res |-> resultWith(b, total),
                              row |-> [call.args.row EXCEPT !.Properties = b.rowProps]],
                     !.returned = TRUE]
  /\ UNCHANGED pipelineVars

\* column names of the rows handed to extractCell: three aliases, one of them
\* in capitals, and a column that is no alias
K_Cell == <<"C","e","l","l">>
K_cell == <<"c","e","l","l">>

\* values of an alias column: two valid cells, an unparsable text, a negative
\* integer, an integer that is no valid cell, null, zero, a blank text
AliasValues ==
  { StrVal(<<"1","8">>), StrVal(<<"2","9">>), StrVal(S_notacell), IntVal(-24),
    IntVal(24), NullVal, StrVal(<<"0">>), StrVal(<<" ">>) }

\* the calls of extractCell and extractProperties on one row of the file
ExtractCalls ==
  { [ fn |-> "extractCell", args |-> [row |-> r],
      out |-> [c |-> [cell |-> 0, str |-> << >>, err |-> NoErr], props |-> EmptyMap],
      returned |-> FALSE ] :
      r \in UNION { [ks -> AliasValues] :
                      ks \in (SUBSET {K_Cell, K_cell, K_h3}) \ {{}} }
            \cup UNION { [ks \cup {K_score} -> AliasValues \ {NullVal}] :
                           ks \in { {K_Cell, K_h3}, {K_cell}, {} } } }

\* the body of fillBuffer's loop: extractCell(rowMap), extractProperties(rowMap)
CallExtractCell ==
  /\ call.fn = "extractCell"
  /\ ~call.returned
  /\ call' = [call EXCEPT !.out = [c |-> extractCell(rowMapOf(call.args.row)),
                                    props |-> extractProperties(rowMapOf(call.args.row))],
                          !.returned = TRUE]
  /\ UNCHANGED pipelineVars

NextCall ==
  \/ CallFilterApply
  \/ CallQuantizerApply
  \/ CallDeriveZooms
  \/ CallStringToCell
  \/ CallBuildFeature
  \/ CallExtractCell

InitCall ==
  /\ source = << >>
  /\ opts = PipelineOpts(1)
  /\ InitPipeline
  /\ call \in FilterCalls \cup QuantizerCalls \cup ZoomCalls \cup StringCalls \cup BuildCalls
              \cup ExtractCalls

SpecCall == InitCall /\ [][NextCall]_vars

(***************************************************************************)
(* The property filter.                                                    *)
(***************************************************************************)
\* the filter a call constructs
filterOf(c) == NewFilter(c.args.include, c.args.drop, c.args.keepAllByDefault)

\* some drop pattern of the filter matches the key
denied(f, key) == \E i \in 1..Len(f.dropPatterns) : Match(f.dropPatterns[i], key)

\* C12: when the allow-list of the filter is not empty, Filter.Apply returns
\* exactly the entries whose key is in the allow-list and matches no drop
\* pattern, each with its value, whatever keepAllByDefault is.
C12AllowList ==
  (call.fn = "Filter.Apply" /\ call.returned /\ filterOf(call).includes # {}) =>
     call.out = [k \in {x \in DOMAIN call.args.props :
                          x \in filterOf(call).includes /\ ~denied(filterOf(call), x)}
                 |-> call.args.props[k]]

\* a call with keepAllByDefault set whose allow-list keeps one entry, loses
\* one to a drop pattern and leaves out an entry that is not listed
C12Witness ==
  /\ call.fn = "Filter.Apply" /\ call.returned
  /\ call.args.keepAllByDefault
  /\ filterOf(call).includes = {K_score, K_name}
  /\ DOMAIN call.args.props = {K_score, K_sum, K_name}
  /\ DOMAIN call.out = {K_name}

\* C13: a build given no property allow-list keeps no input property: every
\* feature in the sink carries the system fields h3 and resolution and
\* nothing else, with and without drop patterns.
C13DefaultKeepsNone ==
  opts.PropertyInclude = << >> =>
     \A j \in 1..Len(sink) : DOMAIN sink[j].Properties = {K_h3, K_resolution}

\* a feature was emitted for a row with two properties, no allow-list and no
\* drop pattern
C13Witness ==
  /\ opts.PropertyInclude = << >> /\ opts.PropertyDrop = << >>
  /\ {K_score, K_name} \subseteq DOMAIN source[1]
  /\ Len(sink) = 1

(***************************************************************************)
(* The quantizer.                                                          *)
(***************************************************************************)
\* a call of Quantizer.Apply has returned
quantizerReturned == call.fn = "Quantizer.Apply" /\ call.returned

\* the value is of a numeric type
numeric(value) == value.t \in {"int64", "float64"}

\* the numeric value is an exact multiple of the step
multipleOf(value, step) ==
  IF value.t = "int64" THEN (value.i * step.den) % step.num = 0
  ELSE (value.i * step.den) % (FloatScale * step.num) = 0

\* the keys of a call whose numeric value has a positive effective step
rounded(c) ==
  {k \in DOMAIN c.args.props :
     numeric(c.args.props[k]) /\ lookupStep(c.args.q, k, c.args.props[k]).num > 0}

\* C14: a numeric value that is already an exact multiple of its effective
\* step is left unchanged by Quantizer.Apply, and when every rounded value of
\* the map is such a multiple the call counts no change and no error.
C14FixedPoint ==
  quantizerReturned =>
    \A ks \in {rounded(call)} :
      /\ \A k \in ks :
           multipleOf(call.args.props[k], lookupStep(call.args.q, k, call.args.props[k]))
             => call.out.props[k] = call.args.props[k]
      /\ (\A k \in ks :
            multipleOf(call.args.props[k], lookupStep(call.args.q, k, call.args.props[k])))
           => call.out.result = NoQuant

\* twice the distance of two values of one numeric type, in units of 1/FloatScale
twiceDistance(a, b) ==
  IF a.t = "int64" THEN 2 * FloatScale * Abs(a.i - b.i) ELSE 2 * Abs(a.i - b.i)

\* C15: Quantizer.Apply moves a numeric value, float or integer, by at most
\* half of its effective step s > 0, whole or fractional.
C15HalfStepBound ==
  quantizerReturned =>
    \A k \in rounded(call) :
      \A step \in {lookupStep(call.args.q, k, call.args.props[k])} :
        twiceDistance(call.out.props[k], call.args.props[k]) * step.den
          <= FloatScale * step.num

\* the step the rule names: the override of the key when there is one, else
\* the default of the value's type
ruleStep(q, key, value) ==
  IF key \in DOMAIN q.FieldSteps THEN q.FieldSteps[key]
  ELSE IF value.t = "float64" THEN q.FloatStep ELSE q.IntStep

\* C16: Quantizer.Apply rounds a numeric value with the per-field override of
\* its key when one exists (an override of 0 switches rounding off even when
\* the type default is positive) and otherwise with the float default for a
\* float and the integer default for an integer; a step <= 0 leaves the
\* value unchanged; strings, booleans and nulls are unchanged under every
\* configuration, an override on their key included.
C16EffectiveStep ==
  quantizerReturned =>
    \A k \in DOMAIN call.args.props :
      \A v \in {call.args.props[k]} :
        \A step \in {ruleStep(call.args.q, k, v)} :
          call.out.props[k] =
            IF ~numeric(v) \/ step.num <= 0 THEN v
            ELSE IF v.t = "float64" THEN FloatVal(quantizeFloat64(v.i, step).value)
            ELSE IntVal(quantizeInt64(v.i, step).value)

\* an integer that the positive integer default would move is left alone by
\* an override of 0 on its key
C16Witness ==
  /\ quantizerReturned
  /\ call.args.props = [k \in {K_score} |-> IntVal(7)]
  /\ call.args.q.IntStep = Step(3, 1)
  /\ call.args.q.FieldSteps = [k \in {K_score} |-> NoStep]
  /\ call.out.props[K_score] = IntVal(7)

(***************************************************************************)
(* Zoom levels.                                                            *)
(***************************************************************************)
\* a call of deriveZooms has returned
zoomsReturned == call.fn = "deriveZooms" /\ call.returned

\* clamp(x, lower, upper)
clamp(x, lower, upper) == IF x < lower THEN lower ELSE IF x > upper THEN upper ELSE x

\* C17 as stated: without a minimum zoom from the caller the minimum is 0, and
\* without a maximum zoom from the caller the maximum is
\* clamp(MaxResolutionSeen + 2, 12, 15), for every MaxResolutionSeen in 0..15.
C17StatedZooms ==
  zoomsReturned =>
    /\ call.args.MinZoom < 0 => call.out.minZoom = 0
    /\ call.args.MaxZoom < 0 =>
         call.out.maxZoom = clamp(call.args.MaxResolutionSeen + 2, 12, 15)

\* C17: without a minimum zoom from the caller the minimum is 0; without a
\* maximum zoom from the caller the maximum is clamp(MaxResolutionSeen + 2,
\* 12, 15), or the minimum zoom when that is larger (minimum zooms up to 15),
\* for every MaxResolutionSeen in 0..15.
C17DerivedZooms ==
  zoomsReturned =>
    /\ call.args.MinZoom < 0 => call.out.minZoom = 0
    /\ (call.args.MaxZoom < 0 /\ call.out.minZoom <= MaxTileZoom) =>
         \A derived \in {clamp(call.args.MaxResolutionSeen + 2, 12, 15)} :
           call.out.maxZoom = IF call.out.minZoom > derived THEN call.out.minZoom
                              ELSE derived

\* neither zoom given and resolution 9 seen: the zooms are 0 and 12
C17Witness ==
  /\ zoomsReturned
  /\ call.args = [MinZoom |-> -1, MaxZoom |-> -1, MaxResolutionSeen |-> 9]
  /\ call.out = [minZoom |-> 0, maxZoom |-> 12]

\* C18: the pair deriveZooms returns has maxZoom >= minZoom, for every
\* combination of given and derived zooms.
C18ZoomOrder ==
  zoomsReturned => call.out.maxZoom >= call.out.minZoom

(***************************************************************************)
(* Cancellation.                                                           *)
(***************************************************************************)
\* a fatal error has arisen: the producer holds a read error, or the
\* reassembly loop has received an error result or failed to write
fatalError == prod.pc = "sendErr" \/ main.pc = "wait"

\* C19: after a read error of the decoder, a fatal error reported by a worker
\* or a write failure of the sink, processRows returns an error, and the
\* producer and every worker terminate: none stays blocked on the jobs or the
\* results channel.
C19FatalErrorStops ==
  fatalError ~> (main.ret = "error" /\ prod.pc = "done" /\ allWorkersDone)

\* C20: processRows returns nil only if every row of the input was released
\* to the metrics and the sink; a run whose caller cancelled while rows were
\* unread or in flight does not return nil.
C20NoPartialSuccess ==
  main.ret = "nil" => loc.expected = Len(source) + 1

(***************************************************************************)
(* Properties of the emitted features.                                     *)
(***************************************************************************)
\* the cell a feature is identified by
cellOfFeature(f) == ParseUint(f.ID, 16).value

\* C11: every feature in the sink carries the system field h3 with the
\* canonical string of its cell and the system field resolution with the
\* resolution of that cell.
C11SystemFields ==
  \A j \in 1..Len(sink) :
     /\ {K_h3, K_resolution} \subseteq DOMAIN sink[j].Properties
     /\ sink[j].Properties[K_h3] = StrVal(IndexToString(cellOfFeature(sink[j])))
     /\ sink[j].Properties[K_resolution] = IntVal(h3Resolution(cellOfFeature(sink[j])))

(***************************************************************************)
(* The pipeline on a burst: one row more than the workers and the results  *)
(* channel can hold, after the row that is waited for.                     *)
(***************************************************************************)
\* the rows one worker can be overtaken by: the channel capacity, the other
\* workers, and two more
BurstRows == 3 * MaxThreads + 2

InitBurst ==
  /\ source = [i \in 1..BurstRows |-> [k \in {K_h3} |-> StrVal(<<"2","9">>)]]
  /\ opts = PipelineOpts(MaxThreads)
  /\ InitState

SpecBurst == InitBurst /\ [][Next]_vars

\* C21: at every point of a run the pending map of the reassembly loop holds
\* at most 3 x Threads results (the workers plus the capacity of the results
\* channel), whatever the number of input rows.
C21PendingBound == Cardinality(DOMAIN loc.pending) <= 3 * Threads

(***************************************************************************)
(* Cell values that resolve to no cell.                                    *)
(***************************************************************************)
\* the value of the h3 column of the only row, null when the row has none
cellValue == IF K_h3 \in DOMAIN source[1] THEN source[1][K_h3] ELSE NullVal

\* the cell value is a negative integer or a negative float
negativeCell == cellValue.t \in {"int64", "float64"} /\ cellValue.i < 0

\* the cell value is null, blank, unparsable or zero-valued
noCell ==
  cellValue \in {NullVal, StrVal(<<" ">>), StrVal(S_notacell), StrVal(<<"0">>), FloatVal(2)}

\* C22: a row whose cell value is a negative integer or a negative float is
\* dropped as invalid with the error of parseCell in its sample (the value
\* reaches parseCell as a parquet.Value, whose text with the minus sign does
\* not parse); a row whose cell value is
\* null, blank, unparsable or zero is dropped as invalid too; and every
\* emitted feature is built from a valid cell other than 0, whose canonical
\* string is its identifier.
C22NoZeroCell ==
  /\ (negativeCell /\ loc.expected > 1) =>
        /\ metrics.DroppedInvalidH3 = 1
        /\ sink = << >>
        /\ Len(loc.invalidSamples) = 1
        /\ loc.invalidSamples[1].detail.kind
              \in {"negative_integer", "negative_float", "parse_h3_string"}
        /\ loc.invalidSamples[1].detail.row = 1
  /\ (noCell /\ loc.expected > 1) => (metrics.DroppedInvalidH3 = 1 /\ sink = << >>)
  /\ \A j \in 1..Len(sink) :
        /\ sink[j].Geometry # 0
        /\ h3IsValid(sink[j].Geometry)
        /\ sink[j].ID = IndexToString(sink[j].Geometry)

\* the row with the cell value -24.0 was dropped and processRows returned nil
C22Witness ==
  /\ cellValue = FloatVal(0 - 24 * FloatScale)
  /\ main.ret = "nil"
  /\ metrics.DroppedInvalidH3 = 1
  /\ loc.invalidSamples[1].detail.kind = "parse_h3_string"

(***************************************************************************)
(* The pipeline with one worker on long inputs: more rows of a kind than   *)
(* the report samples, and one row for every spelling of the cell column.  *)
(***************************************************************************)
\* the cell column under each alias, with the capitals the alphabet has
AliasSpellings ==
  << <<"H","3">>, <<"H","3","_","i","d">>, <<"h","3","i","n","d","e","X">>,
     <<"H","3","_","i","n","d","e","x">>, <<"h","3","i","d">>,
     <<"C","e","l","l">>, <<"C","e","l","l","_","i","d">> >>

\* a row with no cell column
NoCellRow == [k \in {K_score} |-> IntVal(12)]

\* the inputs: no row with a cell column (one more than the samples kept),
\* a row for every alias spelling, rows over the cap (one more than the
\* warnings kept)
LongSources ==
  { [i \in 1..(invalidSampleLimit + 1) |-> NoCellRow],
    [i \in 1..Len(AliasSpellings) |-> [k \in {AliasSpellings[i]} |-> StrVal(<<"2","9">>)]],
    [i \in 1..(propertyWarningLimit + 1) |-> OverCapRow] }

\* the names of 14 property columns
ManyKeys ==
  [i \in 1..14 |-> << "p", <<"a","b","c","d","e","f","g","i","j","k","l","m","n","o">>[i] >>]

\* a name one byte longer than the first of them
FatKey == << "p", "a", "a" >>

\* a column name of 20 KB
K_huge == LongText(propertyWarnBytesThreshold)

\* the first n of them
ManyProps(n) == [k \in {ManyKeys[i] : i \in 1..n} |-> IntVal(1)]

\* rows at and over the soft thresholds: 15 and 16 properties with the two
\* system fields, 16 properties one byte longer (one name longer), 16
\* properties under the minimum resolution, properties over 20 KB
EdgeRow == rowOf(StrVal(<<"2","9">>), ManyProps(propertyWarnCountThreshold - 2))
ManyRow == rowOf(StrVal(<<"2","9">>), ManyProps(propertyWarnCountThreshold - 1))
FatRow ==
  rowOf(StrVal(<<"2","9">>),
        [k \in {ManyKeys[i] : i \in 2..(propertyWarnCountThreshold - 1)} \cup {FatKey} |->
           IntVal(1)])
LowRow == rowOf(StrVal(<<"1","3">>), ManyProps(propertyWarnCountThreshold - 1))
HugeRow == rowOf(StrVal(<<"2","9">>), [k \in {K_huge} |-> IntVal(1)])

\* the bytes of the marshalled properties of ManyRow: the braces, 14 entries
\* "pa":{} with their commas, "h3":"29" with its comma, "resolution":9
ManyRowBytes == 2 + 14 * 8 + 10 + 14

WarnSources ==
  { << ManyRow >>,
    << ManyRow, EdgeRow, FatRow, LowRow >> }

\* a row under the thresholds and the row over 20 KB
HugeSource == << EdgeRow, HugeRow >>

\* more rows of 16 properties than the report lists
ManySource == [i \in 1..(propertyWarningLimit + 1) |-> ManyRow]

\* every property kept, no quantization, the cap as given
WarnOpts(cap) ==
  [PipelineOpts(1) EXCEPT !.PropertyInclude = ManyKeys \o << FatKey >>,
                          !.Quantize = NoQuantizer,
                          !.PropertyByteCap = cap]

\* the cap left at its default, set to the size of ManyRow, set over 20 KB
WarnOptions == {WarnOpts(cap) : cap \in {0, ManyRowBytes, 30 * 1024}}

\* the same with the long column kept too
HugeOptions == {[o EXCEPT !.PropertyInclude = @ \o << K_huge >>] : o \in WarnOptions}

\* more rows than two workers, the results channel and the producer hold
PairSource == [i \in 1..(3 * 2 + 2) |-> [k \in {K_h3} |-> StrVal(<<"2","9">>)]]

InitLong ==
  /\ \/ /\ source \in LongSources
        /\ opts = PipelineOpts(1)
     \/ /\ source \in WarnSources
        /\ opts \in WarnOptions
     \/ /\ source = HugeSource
        /\ opts \in HugeOptions
     \/ /\ source = ManySource
        /\ opts = WarnOpts(0)
     \/ /\ source = PairSource
        /\ opts = PipelineOpts(2)
  /\ InitState

SpecLong == InitLong /\ [][Next]_vars

(***************************************************************************)
(* Lookup of the cell column.                                              *)
(***************************************************************************)
\* the released rows that have a column spelled as an alias, in any case
aliasRows ==
  {i \in releasedRows : \E k \in DOMAIN source[i] : ToLower(k) \in possibleH3Names}

\* the input has no row with a cell column
noCellColumn == \A i \in 1..Len(source) : \A k \in DOMAIN source[i] : ToLower(k) \notin possibleH3Names

\* C23: a column spelled as an alias in any letter case is the cell column
\* (its row is not counted as invalid), a row with no such column is dropped as
\* invalid with the missing-column diagnostic and the run goes on: an input
\* with no cell column in any row fails only by a read failure, and when
\* processRows returns nil without cancellation every row is counted as
\* DroppedInvalidH3.
C23MissingColumn ==
  /\ metrics.DroppedInvalidH3 = Cardinality(releasedRows \ aliasRows)
  /\ \A j \in 1..Len(loc.invalidSamples) :
        /\ loc.invalidSamples[j].row \in releasedRows \ aliasRows
        /\ loc.invalidSamples[j].detail.kind = "missing_h3_column"
  /\ noCellColumn =>
        /\ main.err.kind \in {"nil", "read_parquet_rows"}
        /\ sink = << >>
        /\ (main.ret = "nil" /\ ~parentDone) =>
              /\ metrics.TotalRows = Len(source)
              /\ metrics.DroppedInvalidH3 = Len(source)

\* processRows returned nil over the input without a cell column, every row
\* counted as invalid
C23Witness ==
  /\ noCellColumn
  /\ main.ret = "nil"
  /\ metrics.DroppedInvalidH3 = Len(source)
  /\ Len(source) > invalidSampleLimit

(***************************************************************************)
(* stringToCell.                                                           *)
(***************************************************************************)
\* the number a text denotes in a base, -1 when it is empty or has a
\* character that is no digit of the base
RECURSIVE numberIn(_, _, _)
numberIn(s, base, acc) ==
  IF s = << >> THEN acc
  ELSE IF DigitValues[s[1]] < 0 \/ DigitValues[s[1]] >= base THEN -1
  ELSE numberIn(Tail(s), base, acc * base + DigitValues[s[1]])

\* the text of a call of stringToCell after the prefix
bodyOf(text) ==
  IF Len(text) >= 2 /\ text[1] = "0" /\ text[2] \in {"x", "X"}
  THEN SubSeq(text, 3, Len(text)) ELSE text

\* a text denotes a number of the word in a base
denotes(s, base) == s # << >> /\ numberIn(s, base, 0) \in 0..(WordLimit - 1)

\* C24: stringToCell returns the hexadecimal value of the text after the
\* optional 0x or 0X whenever that text is a hexadecimal number of the word,
\* decimal digits only or not; the decimal value only when it is no such
\* hexadecimal number and is a decimal number of the word; an error otherwise.
C24HexFirst ==
  (call.fn = "stringToCell" /\ call.returned) =>
     \A body \in {bodyOf(call.args.text)} :
        IF denotes(body, 16)
        THEN call.out.err = NoErr /\ call.out.cell = numberIn(body, 16, 0)
        ELSE IF denotes(body, 10)
        THEN call.out.err = NoErr /\ call.out.cell = numberIn(body, 10, 0)
        ELSE call.out.err # NoErr /\ call.out.err.text = body

\* the text "49", decimal digits only, returned as the index 0x49
C24Witness ==
  /\ call.fn = "stringToCell"
  /\ call.returned
  /\ call.args.text = <<"4","9">>
  /\ call.out.cell = 4 * 16 + 9

(***************************************************************************)
(* C25: the order of the stages of Run.                                    *)
(***************************************************************************)
\* a collaborator was called and failed
collaboratorFailed == effects.tiler = "failed" \/ effects.convert = "failed"

\* C25: the Tile Builder is invoked only after processRows returned without
\* error and the NDJSON writer was closed; the archive conversion is invoked
\* only after the Tile Builder succeeded; when either of them fails Run
\* returns the error with no Result and no report is written.
C25StageOrder ==
  /\ effects.tiler # "none" => main.pc = "returned" /\ main.ret = "nil" /\ effects.writerClosed
  /\ effects.convert # "none" => effects.tiler = "ok"
  /\ collaboratorFailed => run = "failed" /\ effects.report = "none" /\ effects.info = "none"
  /\ effects.report # "none" => effects.convert = "ok"

\* the Tile Builder succeeded, the conversion failed and Run has returned
C25Witness ==
  /\ effects.writerClosed
  /\ effects.tiler = "ok"
  /\ effects.convert = "failed"
  /\ run = "failed"
  /\ ~parentDone
  /\ metrics.EmittedFeatures > 0

(***************************************************************************)
(* C26: the archive's metadata.                                            *)
(***************************************************************************)
\* C26: when the archive inspection exits non-zero or prints no valid JSON,
\* Run stops and returns an error.
C26InfoFailureAborts ==
  effects.info \in {"exit", "malformed"} => run = "failed"

(***************************************************************************)
(* C27: Reader.Next called on its own, with every batch size.              *)
(***************************************************************************)
MaxRead == 4
MaxBatch == 3
MaxCalls == MaxRead + 3

\* files of valid and invalid rows
ReadSources ==
  SeqsUpTo({ [k \in {K_h3} |-> StrVal(<<"2","9">>)],
             [k \in {K_score} |-> IntVal(12)] }, MaxRead)

\* a reader opened on the file, no row read
InitRead ==
  /\ source \in ReadSources
  /\ opts = PipelineOpts(1)
  /\ InitPipeline
  /\ \E batchSize \in -1..MaxBatch :
       call = [fn |-> "Reader.Next", reader |-> NewReader(batchSize), out |-> << >>]

\* one call of Next on the reader; the row's number and error, and the error
\* of the call, are kept in call order
CallReaderNext(ioFail, got) ==
  /\ call.fn = "Reader.Next"
  /\ Len(call.out) < MaxCalls
  /\ LET n == ReaderNext(call.reader, ioFail, got)
     IN  call' = [call EXCEPT !.reader = n.reader,
                              !.out = Append(@, [number |-> n.row.RowNumber,
                                                 invalid |-> n.row.Err # NoErr,
                                                 err |-> n.err])]
  /\ UNCHANGED pipelineVars

NextRead == \E ioFail \in BOOLEAN, got \in 1..MaxBatch : CallReaderNext(ioFail, got)

SpecRead == InitRead /\ [][NextRead]_vars

\* the number of rows the first i calls returned
rowsReturned(i) == Cardinality({j \in 1..i : call.out[j].err = ""})

\* C27: the calls of Next that return a row return the rows numbered 1, 2,
\* ..., N in that order, whatever the batch size and the sizes of the
\* refills, invalid rows included; no call returns io.EOF before the N-th
\* row and every call after it does.
C27RowNumbers ==
  \A i \in 1..Len(call.out) :
    /\ call.out[i].err = "" =>
         /\ call.out[i].number = rowsReturned(i - 1) + 1
         /\ call.out[i].invalid = (DecodeRow(source[call.out[i].number], 1).Err # NoErr)
    /\ call.out[i].err = "EOF" <=> rowsReturned(i - 1) = totalRows

\* a file of MaxRead rows, some of them invalid, read to its end in batches
\* of two, then two more calls
C27Witness ==
  /\ totalRows = MaxRead
  /\ call.reader.batch = 2
  /\ Len(call.out) = MaxRead + 2
  /\ rowsReturned(MaxRead) = MaxRead
  /\ call.out[MaxRead + 2].err = "EOF"
  /\ \E i, j \in 1..MaxRead : call.out[i].invalid /\ ~call.out[j].invalid

(***************************************************************************)
(* C28, C29: the property warnings and the invalid-cell samples.           *)
(***************************************************************************)
\* the released rows whose accounting the loop has completed: all but a row
\* whose write failed
accountedRows ==
  {i \in releasedRows : ~(main.err.kind = "write_ndjson_feature" /\ i = loc.expected - 1)}

\* the rows that raised a property warning, rs being the results of
\* buildFeature row by row: dropped for the cap, or written with more than 15
\* properties or more than 20 KB of them
warnedRows(rs) ==
  {i \in accountedRows :
     /\ rs[i].Err = NoErr
     /\ \/ rs[i].Dropped /\ rs[i].DropReason = "property_cap"
        \/ ~rs[i].Dropped /\ (rs[i].PropertyCount > 15 \/ rs[i].PropertyBytes > 20 * 1024)}

\* the notices of one kind among the report's warnings
notices(kind) == {j \in 1..Len(metrics.Warnings) : metrics.Warnings[j].kind = kind}

\* C28: the report holds at most 20 property warnings and at most 10
\* invalid-cell samples; the invalid-cell notice lists the samples and gives
\* DroppedInvalidH3 less their number as the rows beyond them; when
\* processRows returns, the truncation notice, written when more than 20
\* warnings were raised, gives the number raised.
C28CappedSamples ==
  /\ Len(metrics.PropertyWarnings) <= 20
  /\ Len(loc.invalidSamples) <= 10
  /\ Len(loc.invalidSamples) = Min(10, metrics.DroppedInvalidH3)
  /\ \A j \in notices("invalid_cells") :
        /\ metrics.Warnings[j].count = Len(loc.invalidSamples)
        /\ metrics.Warnings[j].more = metrics.DroppedInvalidH3 - Len(loc.invalidSamples)
  /\ main.pc = "returned" /\ main.ret = "nil" =>
        metrics.DroppedInvalidH3 > 0 <=> notices("invalid_cells") # {}
  /\ run = "processRows" /\ main.pc = "returned" =>
        LET raised == Cardinality(warnedRows(sequentialResults(loc.expected - 1)))
        IN  /\ Len(metrics.PropertyWarnings) = Min(20, raised)
            /\ \A j \in notices("warnings_truncated") : metrics.Warnings[j].count = raised
            /\ main.ret = "nil" => (raised > 20 <=> notices("warnings_truncated") # {})

\* 21 rows written with 16 properties: 20 warnings kept, the notice says 21
C28Witness ==
  /\ main.ret = "nil"
  /\ Len(metrics.PropertyWarnings) = 20
  /\ \E j \in notices("warnings_truncated") : metrics.Warnings[j].count = 21
  /\ metrics.EmittedFeatures = 21

\* the accounted rows that buildFeature measured over a soft threshold: more
\* than 15 properties or more than 20 KB of them
overSoftRows(rs) ==
  {i \in accountedRows :
     rs[i].Err = NoErr /\ (rs[i].PropertyCount > 15 \/ rs[i].PropertyBytes > 20 * 1024)}

\* the report lists row i with its count and size fr
flagged(i, fr) ==
  \E k \in 1..Len(metrics.PropertyWarnings) :
     /\ metrics.PropertyWarnings[k].RowNumber = i
     /\ metrics.PropertyWarnings[k].PropertyCount = fr.PropertyCount
     /\ metrics.PropertyWarnings[k].PropertyBytes = fr.PropertyBytes

\* the properties a feature of the row carries: the filtered columns and the
\* two system fields, quantized
featureProperties(row) ==
  QuantizerApply(cfg.Quantizer,
                 withSystemFields(FilterApply(cfg.Filter, row.Properties), row)).props

\* the row has more than 15 such properties or more than 20 KB of them
overSoft(row) ==
  \/ Cardinality(DOMAIN featureProperties(row)) > 15
  \/ jsonLen(featureProperties(row)) > 20 * 1024

\* C29 as stated: when processRows returns, every row it wrote or dropped,
\* for whatever reason, whose properties number more than 15 or take more
\* than 20 KB is listed among the property warnings when fewer than 20
\* warnings were raised before it.
C29StatedWarning ==
  run = "processRows" /\ main.pc = "returned" =>
    LET warned == warnedRows(sequentialResults(loc.expected - 1))
    IN  \A i \in accountedRows :
           (overSoft(DecodeRow(source[i], i)) /\ Cardinality({j \in warned : j < i}) < 20)
             => \E k \in 1..Len(metrics.PropertyWarnings) :
                   metrics.PropertyWarnings[k].RowNumber = i

\* C29: when processRows returns, every row it wrote or dropped at the
\* property cap whose properties were measured at more than 15 or at more
\* than 20 KB has raised a property warning, whatever the hard cap: the
\* warning is counted, and it is listed in the report when fewer than 20
\* warnings were raised before it.  A row dropped for its cell or for its
\* resolution is not measured and is never listed.
C29SoftWarning ==
  run = "processRows" /\ main.pc = "returned" =>
    LET rs == sequentialResults(loc.expected - 1)
        warned == warnedRows(rs)
        over == overSoftRows(rs)
    IN  /\ loc.propertyWarnings >= Cardinality(over)
        /\ \A i \in over :
              Cardinality({j \in warned : j < i}) < 20 => flagged(i, rs[i])
        /\ \A k \in 1..Len(metrics.PropertyWarnings) :
              /\ metrics.PropertyWarnings[k].RowNumber \in warned
              /\ rs[metrics.PropertyWarnings[k].RowNumber].DropReason
                    \notin {"resolution", "invalid_h3"}

\* one run with the cap at the size of the first row: the row of 16
\* properties is written and flagged, the longer one is dropped and flagged,
\* the row of 15 properties and the row under the minimum resolution are not
\* flagged
C29Witness ==
  /\ main.ret = "nil"
  /\ opts.PropertyByteCap = ManyRowBytes
  /\ Len(source) = 4
  /\ metrics.EmittedFeatures = 2
  /\ metrics.DroppedPropertyCap = 1
  /\ metrics.DroppedResolution = 1
  /\ Len(metrics.PropertyWarnings) = 2
  /\ metrics.PropertyWarnings[1] =
        [RowNumber |-> 1, H3 |-> <<"2","9">>, PropertyCount |-> 16,
         PropertyBytes |-> ManyRowBytes, Message |-> "large"]
  /\ metrics.PropertyWarnings[2] =
        [RowNumber |-> 3, H3 |-> <<"2","9">>, PropertyCount |-> 16,
         PropertyBytes |-> ManyRowBytes + 1, Message |-> "dropped"]

(***************************************************************************)
(* C30: buildFeature and the row it is given.                              *)
(***************************************************************************)
\* C30: after buildFeature has returned, the row it was given is as it was
\* before the call, its Properties included, for every filter (none
\* included) and every quantizer.
C30RowUnchanged ==
  call.fn = "buildFeature" /\ call.returned => call.out.row = call.args.row

\* no filter: the system fields were written into the map cloneMap returned
\* and the quantizer rounded the resolution in it in place, the row has
\* neither field and still holds its score
C30Witness ==
  /\ call.fn = "buildFeature"
  /\ call.returned
  /\ call.args.cfg.Filter = NilFilter
  /\ call.out.res.QuantResult.Changes >= 1
  /\ ~call.out.res.Dropped
  /\ DOMAIN call.args.row.Properties = {K_score}
  /\ call.out.res.Feature.Properties[K_score] = call.args.row.Properties[K_score]
  /\ call.out.res.Feature.Properties[K_resolution] = IntVal(10)
  /\ K_h3 \in DOMAIN call.out.res.Feature.Properties
  /\ K_h3 \notin DOMAIN call.out.row.Properties

(***************************************************************************)
(* C31: who writes the reassembly state.                                   *)
(***************************************************************************)
\* a step of the producer goroutine
producerStep ==
  \/ \E ioFail \in BOOLEAN : ProducerNext(ioFail)
  \/ ProducerCtxDone
  \/ ProducerSendErr

\* a step of a worker goroutine
workerStep ==
  \E w \in BagToSet(workers) :
     WorkerRecv(w) \/ WorkerJobsClosed(w) \/ WorkerCtxDone(w) \/ WorkerSend(w)

\* a step of the goroutine that runs the reassembly loop, and then the rest
\* of Run
reassemblyStep ==
  \/ Receive
  \/ \E writeOk \in BOOLEAN : Drain(writeOk)
  \/ LoopEnd
  \/ ErrorReturn
  \/ \E info \in InfoOutcomes, printed, htmlOk \in BOOLEAN : Finish(info, printed, htmlOk)

\* C31: pending, expected, the other locals of the reassembly loop, the
\* report's metrics and the output change only in steps of the reassembly
\* task; a step of the producer or of a worker leaves them alone, and what a
\* worker hands over is the result it appends to the results channel.
C31SingleOwner ==
  [][ /\ (loc' # loc \/ metrics' # metrics \/ sink' # sink) => reassemblyStep
      /\ (producerStep \/ workerStep) => UNCHANGED << loc, metrics, sink, main >>
      /\ \A n \in DOMAIN loc'.pending \ DOMAIN loc.pending :
            /\ results # << >>
            /\ loc'.pending[n] = Head(results)
            /\ results' = Tail(results) ]_vars

\* two workers have handed results over: one is parked in pending, one is
\* counted, one more waits in the channel
C31Witness ==
  /\ Threads = 2
  /\ DOMAIN loc.pending # {}
  /\ results # << >>
  /\ metrics.TotalRows > 0

(***************************************************************************)
(* C32: the filter with no include list.                                   *)
(***************************************************************************)
\* C32: Apply of a filter built with an empty include list returns every
\* input entry whose key matches no drop pattern.
C32EmptyIncludeKeepsAll ==
  (call.fn = "Filter.Apply" /\ call.returned /\ filterOf(call).includes = {}) =>
     call.out = [k \in {x \in DOMAIN call.args.props :
                          \A i \in 1..Len(filterOf(call).dropPatterns) :
                             ~Match(filterOf(call).dropPatterns[i], x)}
                   |-> call.args.props[k]]

(***************************************************************************)
(* C33: one outcome per row, in a fixed priority.                          *)
(***************************************************************************)
\* the resolution is outside the configured bounds
outsideBounds(resolution) ==
  \/ opts.MinResolution >= 0 /\ resolution < opts.MinResolution
  \/ opts.MaxResolution >= 0 /\ resolution > opts.MaxResolution

\* the outcome the priority gives a decoded row
outcomeOf(row) ==
  IF row.Err # NoErr THEN "invalid"
  ELSE IF outsideBounds(row.Resolution) THEN "resolution"
  ELSE IF serializedBytes(row) > cfg.PropertyCap THEN "property_cap"
  ELSE "emit"

\* the outcome counters of the report
outcomeCounts ==
  [ invalid |-> metrics.DroppedInvalidH3, resolution |-> metrics.DroppedResolution,
    property_cap |-> metrics.DroppedPropertyCap, emit |-> metrics.EmittedFeatures ]

\* C33: the released row of a one-row input is counted under exactly one of
\* invalid cell, resolution, property cap and emitted, the first that applies
\* in that order, and under nothing else.
C33OneOutcome ==
  (Len(source) = 1 /\ loc.expected = 2 /\ ~writeFailed) =>
     /\ outcomeCounts = [o \in DOMAIN outcomeCounts |->
                           IF o = outcomeOf(DecodeRow(source[1], 1)) THEN 1 ELSE 0]
     /\ metrics.DroppedOther = 0
     /\ Len(sink) = outcomeCounts.emit
     /\ Len(loc.invalidSamples) = outcomeCounts.invalid

\* a row under the minimum resolution whose properties are over the cap was
\* counted as a resolution drop
C33Witness ==
  /\ Len(source) = 1 /\ loc.expected = 2
  /\ DecodeRow(source[1], 1).Err = NoErr
  /\ outsideBounds(DecodeRow(source[1], 1).Resolution)
  /\ serializedBytes(DecodeRow(source[1], 1)) > cfg.PropertyCap
  /\ metrics.DroppedResolution = 1

(***************************************************************************)
(* C34: sends on the results channel and its close.                        *)
(***************************************************************************)
\* C34: no goroutine sends on the results channel once it is closed: the
\* producer is never at its error send with results closed, and the send
\* never panics.
C34NoSendAfterClose ==
  /\ ~(prod.pc = "sendErr" /\ resultsClosed)
  /\ prod.pc # "panic"
  /\ \A w \in BagToSet(workers) : w.pc = "send" => ~resultsClosed

(***************************************************************************)
(* C35: the rows between the decoder and the reassembly loop.              *)
(***************************************************************************)
\* the rows reader.Next has returned to the producer
rowsRead == reader.read - Len(reader.buffer) + reader.cursor

\* the row results the reassembly loop has received: released, or in pending
rowsReceived == loc.expected - 1 + Cardinality(DOMAIN loc.pending)

\* C35: while processRows runs, the rows the producer has read whose results
\* the reassembly loop has not received are at most 3 x Threads + 1.
C35BackPressure ==
  run = "processRows" /\ ~reader.closed => rowsRead - rowsReceived <= 3 * Threads + 1

\* two workers: the producer holds a row, each worker holds a result and the
\* results channel is full, the loop has received nothing
C35Witness ==
  /\ Threads = 2
  /\ rowsRead - rowsReceived = 3 * Threads + 1
  /\ prod.pc = "send"
  /\ Len(results) = 2 * Threads
  /\ \A w \in BagToSet(workers) : w.pc = "send"
  /\ rowsRead < Len(source)

(***************************************************************************)
(* C36: termination of processRows.                                        *)
(***************************************************************************)
\* a read error or a write failure has just happened, or the caller has
\* cancelled: every run with a fatal error or a cancellation by the caller
\* passes through such a state
faulted == parentDone \/ fatalError

\* processRows has returned nil, every row released, nothing pending, the
\* producer and the workers returned
returnedClean ==
  /\ main.pc = "returned" /\ main.ret = "nil"
  /\ DOMAIN loc.pending = {}
  /\ loc.expected = Len(source) + 1
  /\ prod.pc = "done"
  /\ allWorkersDone
  /\ results = << >> /\ resultsClosed

\* C36: under the scheduling of the goroutines, a run in which no read or
\* write fails and the caller does not cancel reaches the return of nil by
\* processRows with pending empty and the producer and every worker returned;
\* such a run never returns the "incomplete processing" error.
C36Terminates ==
  /\ <>(faulted \/ returnedClean)
  /\ [](~parentDone => main.err.kind # "incomplete_processing")

\* the run of the longest input with the most workers has returned clean
C36Witness ==
  /\ ~parentDone
  /\ returnedClean
  /\ Len(source) = MaxRows
  /\ Threads = MaxThreads
  /\ run = "processRows"

(***************************************************************************)
(* C37: the resolution range of the report.                                *)
(***************************************************************************)
\* the resolutions of the rows ds[i], i in rows
resolutionsOf(ds, rows) == {ds[i].Resolution : i \in rows}

\* the least and the greatest member of a non-empty set of integers
leastOf(S) == CHOOSE x \in S : \A y \in S : x <= y
greatestOf(S) == CHOOSE x \in S : \A y \in S : x >= y

\* C37: the resolution range kept by the reassembly loop is the least and the
\* greatest resolution over the released rows whose cell is valid, the rows
\* dropped by the resolution filter or the property cap included and the rows
\* with an invalid cell excluded; it is initialised exactly when there is such
\* a row, and after the loop it is MinResolutionSeen and MaxResolutionSeen.
C37ResolutionRange ==
  \A ds \in {decodedRows(loc.expected - 1)} :
     LET valid == (1..Len(ds)) \ badCells(ds)
         seen  == resolutionsOf(ds, valid)
     IN  /\ loc.resInitialised <=> valid # {}
         /\ valid # {} =>
              /\ loc.minResSeen = leastOf(seen)
              /\ loc.maxResSeen = greatestOf(seen)
              /\ (main.pc = "returned" /\ main.ret = "nil") =>
                   /\ metrics.MinResolutionSeen = leastOf(seen)
                   /\ metrics.MaxResolutionSeen = greatestOf(seen)

\* a run returned with a row dropped by the resolution filter below the
\* resolution of the row that was kept
C37Witness ==
  /\ run = "processRows"
  /\ main.pc = "returned" /\ main.ret = "nil"
  /\ metrics.DroppedResolution = 1
  /\ metrics.EmittedFeatures = 1
  /\ metrics.MinResolutionSeen < opts.MinResolution
  /\ metrics.MaxResolutionSeen >= opts.MinResolution

(***************************************************************************)
(* C38: the ceiling of the maximum zoom.                                   *)
(***************************************************************************)
\* C38: deriveZooms returns no maximum zoom above 15; a given maximum zoom
\* above 15 comes back as 15, and so does a maximum zoom that was raised to a
\* given minimum zoom above 15.
C38ZoomCeiling ==
  zoomsReturned =>
    /\ call.out.maxZoom <= MaxTileZoom
    /\ call.args.MaxZoom > MaxTileZoom => call.out.maxZoom = MaxTileZoom
    /\ call.args.MinZoom > MaxTileZoom => call.out.maxZoom = MaxTileZoom

\* deriveZooms has returned for a minimum zoom of 16 with the maximum derived
\* from the data
C38Witness ==
  /\ zoomsReturned
  /\ call.args.MinZoom = MaxTileZoom + 1
  /\ call.args.MaxZoom = -1
  /\ call.out.maxZoom = MaxTileZoom

(***************************************************************************)
(* C39: a row with several cell-alias columns.                             *)
(***************************************************************************)
\* extractCell has returned for a row
cellExtracted == call.fn = "extractCell" /\ call.returned

\* the alias columns of a row of the file whose value is not null, blank or
\* zero
liveAliases(row) ==
  {k \in DOMAIN row :
     /\ isH3Column(k)
     /\ row[k] # NullVal
     /\ \/ parseCell(ParquetValue(row[k])).err # NoErr
        \/ parseCell(ParquetValue(row[k])).cell # 0}

\* the first of a non-empty set of names in byte order
firstName(S) == CHOOSE k \in S : \A j \in S \ {k} : LexLess(k, j)

\* C39: extractCell takes the alias columns in the byte order of their names
\* and decides on the first whose value is not null, blank or zero: a valid
\* cell there is the cell of the row, a value that does not parse or is no
\* valid cell there is the error of the row, whatever the later alias columns
\* hold; with no such column the row has no cell.  The properties are the
\* columns that are no alias.
C39FirstAlias ==
  cellExtracted =>
    LET row  == call.args.row
        live == liveAliases(row)
        c    == call.out.c
    IN  /\ IF live = {}
           THEN c.cell = 0 /\ c.err = ErrNoH3Column
           ELSE LET k == firstName(live)
                    p == parseCell(ParquetValue(row[k]))
                IN  IF p.err = NoErr /\ h3IsValid(p.cell)
                    THEN c.cell = p.cell /\ c.err = NoErr
                    ELSE c.cell = 0 /\ c.err # NoErr /\ c.err.column = k
        /\ call.out.props =
              [k \in {x \in DOMAIN row : ~isH3Column(x)} |-> ParquetValue(row[k])]
        /\ \A k \in DOMAIN call.out.props : ToLower(k) \notin possibleH3Names

(***************************************************************************)
(* internal/validate: the statistics of a validation run.                  *)
(***************************************************************************)
\* the Result validate.Run starts from
NewValidateResult ==
  [ TotalRows |-> 0, ValidRows |-> 0, InvalidCells |-> 0, ResolutionFiltered |-> 0,
    ResolutionHistogram |-> [r \in {} |-> 0],
    MinResolutionSeen |-> -1, MaxResolutionSeen |-> -1 ]

\* the body of the loop of validate.Run for one row of the reader
validateRow(res, row, o) ==
  LET counted == [res EXCEPT !.TotalRows = @ + 1]
  IN  IF row.Err # NoErr
      THEN [counted EXCEPT !.InvalidCells = @ + 1]
      ELSE IF o.MinResolution >= 0 /\ row.Resolution < o.MinResolution
      THEN [counted EXCEPT !.ResolutionFiltered = @ + 1]
      ELSE IF o.MaxResolution >= 0 /\ row.Resolution > o.MaxResolution
      THEN [counted EXCEPT !.ResolutionFiltered = @ + 1]
      ELSE [counted EXCEPT
              !.ValidRows = @ + 1,
              !.ResolutionHistogram = IncrementHistogram(@, row.Resolution),
              !.MinResolutionSeen =
                 IF @ = -1 \/ row.Resolution < @ THEN row.Resolution ELSE @,
              !.MaxResolutionSeen =
                 IF @ = -1 \/ row.Resolution > @ THEN row.Resolution ELSE @]

\* validate.Run over the first k rows of the source, read without a failure
RECURSIVE validateRun(_, _)
validateRun(k, o) ==
  IF k <= 0 THEN NewValidateResult
  ELSE validateRow(validateRun(k - 1, o), DecodeRow(source[k], k), o)

(***************************************************************************)
(* C40: validate and build on the same input.                              *)
(***************************************************************************)
\* processRows has returned nil with every row of the source released
buildComplete ==
  /\ run = "processRows"
  /\ main.pc = "returned" /\ main.ret = "nil"
  /\ loc.expected = Len(source) + 1

\* C40 (the counts): InvalidCells and ResolutionFiltered of validate.Run are
\* DroppedInvalidH3 and DroppedResolution of the build of the same rows under
\* the same resolution bounds.
countsAgree ==
  buildComplete =>
    \A v \in {validateRun(Len(source), opts)} :
       /\ v.InvalidCells = metrics.DroppedInvalidH3
       /\ v.ResolutionFiltered = metrics.DroppedResolution
       /\ v.TotalRows = metrics.TotalRows

\* C40: for the same rows and the same resolution bounds, the histogram and
\* the least and greatest resolution seen of validate.Run are those of the
\* build, and InvalidCells and ResolutionFiltered are DroppedInvalidH3 and
\* DroppedResolution.
C40StatisticsAgree ==
  buildComplete =>
    \A v \in {validateRun(Len(source), opts)} :
       /\ v.ResolutionHistogram = metrics.ResolutionHistogram
       /\ v.MinResolutionSeen = metrics.MinResolutionSeen
       /\ v.MaxResolutionSeen = metrics.MaxResolutionSeen
       /\ v.InvalidCells = metrics.DroppedInvalidH3
       /\ v.ResolutionFiltered = metrics.DroppedResolution

====
